---------------------------- MODULE Spec2Model ----------------------------
(***************************************************************************)
(* A model of the ilog logging pipeline: the redaction engine              *)
(* (src/utils/sensitive-data.ts) and the Logger orchestrator               *)
(* (src/core/logger.ts): entry points, severity filter, middleware chain,  *)
(* final step (mask, format, fan-out to writers), context and child();     *)
(* the rate limiter (src/middlewares/rate-limit-middleware.ts) and the     *)
(* BufferedWriter and FileWriter sinks (src/writers/index.ts).             *)
(*                                                                         *)
(* JavaScript values are tagged records [t, v]:                            *)
(*   "str"  v = the string as a sequence of one-character strings          *)
(*   "num"  v = a natural number                                           *)
(*   "null", "undefined"  v = <<>>                                         *)
(*   "obj"  v = a function from own enumerable keys (character sequences)  *)
(*              to values                                                  *)
(*   "arr"  v = a sequence of values                                       *)
(***************************************************************************)
EXTENDS Integers, Sequences, FiniteSets, TLC

VARIABLES
    \* ---- redaction engine, applied as a pure function
    data,        \* the value handed to maskSensitiveData
    options,     \* the SensitiveDataMaskingOptions of the call
    result,      \* maskSensitiveData(data, options)
    result2,     \* maskSensitiveData(result, options)
    mpc,         \* "start" | "masked" | "remasked"
    objectPrototype, \* the own properties of the shared Object.prototype
    \* ---- logger family
    loggers,     \* the Logger instances constructed so far
    config,      \* config[l]: the LoggerConfig of logger l
    context,     \* context[l]: the object this.context refers to (an address)
    heap,        \* heap[a]: the object stored at address a
    middlewares, \* middlewares[l]: this.middlewares
    writers,     \* writers[l]: this.writers
    nodeEnv,     \* process.env.NODE_ENV
    \* ---- dispatches
    disp,        \* disp[d]: one writeLog call (its entry, its position, its outcome)
    lastCall,    \* the last entry-point call and what the caller observed
    \* ---- one RateLimitMiddleware instance
    rlOptions,          \* this.options after the constructor
    logTimestamps,      \* this.logTimestamps
    droppedLogsCount,   \* this.droppedLogsCount
    rlEvents,           \* history: every execute / reset call and what it did
    \* ---- one MetricsMiddleware instance
    metricsMw,   \* its options, metrics, logHistory and totalLogSize, what it
                 \* put in context.metadata, and the last call made on it
    \* ---- one BufferedWriter instance and the sink it wraps
    buffer,      \* this.buffer
    flushTimer,  \* TRUE while the timer set by scheduleFlush is armed
    flushes,     \* the flush() calls that are awaiting the wrapped sink
    bwClose,     \* "no" | "pending" | "resolved": the promise of close()
    bufferSize,  \* this.bufferSize
    sunk,        \* history: the records handed to targetWriter.write, in order
    written,     \* history: the number of records write() was called with
    failed,      \* history: the records whose wrapped write rejected
    \* ---- FileWriter instances over one configured path
    files,       \* files[i]: the file with index i (0 is the active file)
    fw,          \* fw[w]: the fields of FileWriter instance w
    fwOps,       \* the write() calls in flight
    fwLog        \* history: the write() calls made, rotations, appended records

maskCallVars == <<data, options, result, result2, mpc>>
maskVars == <<data, options, result, result2, mpc, objectPrototype>>
famVars  == <<loggers, config, context, heap, middlewares, writers, nodeEnv>>
logVars  == <<disp, lastCall>>
rlVars   == <<rlOptions, logTimestamps, droppedLogsCount, rlEvents, metricsMw>>
bwVars   == <<buffer, bufferSize, flushTimer, flushes, bwClose, sunk, written, failed>>
fwVars   == <<files, fw, fwOps, fwLog>>
vars     == <<data, options, result, result2, mpc, objectPrototype,
              loggers, config, context, heap, middlewares, writers, nodeEnv,
              disp, lastCall,
              rlOptions, logTimestamps, droppedLogsCount, rlEvents, metricsMw,
              buffer, bufferSize, flushTimer, flushes, bwClose, sunk, written, failed,
              files, fw, fwOps, fwLog>>

(***************************************************************************)
(* Bounds                                                                  *)
(***************************************************************************)
MaxStrLen == 4      \* longest string value drawn as an input
MaxShow == 2        \* largest showFirst / showLast drawn as an input

(***************************************************************************)
(* Values                                                                  *)
(***************************************************************************)
Str(s) == [t |-> "str", v |-> s]
Num(n) == [t |-> "num", v |-> n]
Null == [t |-> "null", v |-> <<>>]
Undefined == [t |-> "undefined", v |-> <<>>]
Obj(f) == [t |-> "obj", v |-> f]
Arr(a) == [t |-> "arr", v |-> a]
EmptyObj == Obj(<<>>)

UpperCase == <<"A","B","C","D","E","F","G","H","I","J","K","L","M",
               "N","O","P","Q","R","S","T","U","V","W","X","Y","Z">>
LowerCase == <<"a","b","c","d","e","f","g","h","i","j","k","l","m",
               "n","o","p","q","r","s","t","u","v","w","x","y","z">>

\* String.prototype.toLowerCase, one character
LowerChar(c) ==
    IF \E i \in 1..26 : UpperCase[i] = c
    THEN LowerCase[CHOOSE i \in 1..26 : UpperCase[i] = c]
    ELSE c

toLowerCase(s) == [i \in 1..Len(s) |-> LowerChar(s[i])]

\* String.prototype.includes
includes(s, sub) ==
    \E i \in 0..(Len(s) - Len(sub)) :
        \A j \in 1..Len(sub) : s[i + j] = sub[j]

\* RegExp.prototype.test for the patterns of this file: a literal with "."
\* wildcards, unanchored, flag i
RegexTestI(pattern, s) ==
    \E i \in 0..(Len(s) - Len(pattern)) :
        \A j \in 1..Len(pattern) :
            \/ pattern[j] = "."
            \/ LowerChar(pattern[j]) = LowerChar(s[i + j])

RECURSIVE repeat(_, _)
\* String.prototype.repeat
repeat(s, n) == IF n <= 0 THEN <<>> ELSE s \o repeat(s, n - 1)

DigitChars == <<"0","1","2","3","4","5","6","7","8","9">>

RECURSIVE NumToString(_)
NumToString(n) ==
    IF n < 10 THEN <<DigitChars[n + 1]>>
    ELSE NumToString(n \div 10) \o <<DigitChars[(n % 10) + 1]>>

ObjectObject == <<"[","o","b","j","e","c","t"," ","O","b","j","e","c","t","]">>

RECURSIVE String(_)
RECURSIVE JoinComma(_)
\* Array.prototype.join(","): null elements give the empty string
JoinComma(a) ==
    IF Len(a) = 0 THEN <<>>
    ELSE LET h == IF a[1].t \in {"null", "undefined"} THEN <<>> ELSE String(a[1])
         IN IF Len(a) = 1 THEN h ELSE h \o <<",">> \o JoinComma(Tail(a))

\* String(value) of a non-null value
String(x) ==
    CASE x.t = "str" -> x.v
      [] x.t = "num" -> NumToString(x.v)
      [] x.t = "obj" -> ObjectObject
      [] x.t = "arr" -> JoinComma(x.v)
      [] x.t = "undefined" -> <<"u","n","d","e","f","i","n","e","d">>
      [] OTHER -> <<"n","u","l","l">>

(***************************************************************************)
(* Redaction engine                                                        *)
(***************************************************************************)
DEFAULT_SENSITIVE_PATTERNS ==
    << <<"p","a","s","s","w","o","r","d">>,
       <<"t","o","k","e","n">>,
       <<"k","e","y">>,
       <<"s","e","c","r","e","t">>,
       <<"a","u","t","h">>,
       <<"c","r","e","d","e","n","t","i","a","l">>,
       <<"s","s","n">>,
       <<"s","o","c","i","a","l",".","s","e","c","u","r","i","t","y">>,
       <<"c","r","e","d","i","t",".","c","a","r","d">>,
       <<"c","a","r","d",".","n","u","m","b","e","r">>,
       <<"c","v","v">>,
       <<"p","i","n">>,
       <<"e","m","a","i","l">>,
       <<"p","h","o","n","e">>,
       <<"m","o","b","i","l","e">> >>

\* the defaults of the destructuring in maskValue; customPatterns defaults to []
MaskingOptions(fields, maskCharacter, preserveLength, showFirst, showLast) ==
    [sensitiveFields |-> fields, customPatterns |-> <<>>,
     maskCharacter |-> maskCharacter, preserveLength |-> preserveLength,
     showFirst |-> showFirst, showLast |-> showLast]

\* a RegExp object of the caller: a literal with flag i, with or without
\* flag g, and its lastIndex
RegExp(source, global) == [source |-> source, global |-> global, lastIndex |-> 0]

\* the pattern matches s at offset i (counted from 0)
RegexMatchAt(pattern, s, i) ==
    /\ i + Len(pattern) <= Len(s)
    /\ \A j \in 1..Len(pattern) :
          \/ pattern[j] = "."
          \/ LowerChar(pattern[j]) = LowerChar(s[i + j])

\* RegExp.prototype.test on a RegExp object: without flag g the search
\* starts at 0 and the object is left alone; with flag g it starts at
\* lastIndex, which becomes the end of the match, or 0 when there is none
RegExpTest(re, s) ==
    LET from == IF re.global THEN re.lastIndex ELSE 0
        starts == {i \in from..Len(s) : RegexMatchAt(re.source, s, i)}
    IN IF starts = {}
       THEN [found |-> FALSE,
             re |-> IF re.global THEN [re EXCEPT !.lastIndex = 0] ELSE re]
       ELSE LET i == CHOOSE x \in starts : \A y \in starts : x <= y
            IN [found |-> TRUE,
                re |-> IF re.global
                       THEN [re EXCEPT !.lastIndex = i + Len(re.source)] ELSE re]

\* the explicit names and the built-in patterns, which are tested first
MatchesExplicitOrDefault(fieldName, opts) ==
    \/ \E i \in 1..Len(opts.sensitiveFields) :
          includes(toLowerCase(fieldName), toLowerCase(opts.sensitiveFields[i]))
    \/ \E i \in 1..Len(DEFAULT_SENSITIVE_PATTERNS) :
          RegexTestI(DEFAULT_SENSITIVE_PATTERNS[i], fieldName)

\* the decision of one call, with the custom patterns in the state they are
\* in (each pattern is an object of its own, so the test of one does not
\* touch another)
shouldMaskField(fieldName, opts) ==
    \/ MatchesExplicitOrDefault(fieldName, opts)
    \/ \E i \in 1..Len(opts.customPatterns) :
          RegExpTest(opts.customPatterns[i], fieldName).found

\* the custom patterns after one call of shouldMaskField: `some` tests them
\* in order up to the first that matches, and not at all when an explicit
\* name or a built-in pattern matched
customPatternsAfter(fieldName, opts) ==
    LET cp == opts.customPatterns
        hits == {i \in 1..Len(cp) : RegExpTest(cp[i], fieldName).found}
        last == IF hits = {} THEN Len(cp)
                ELSE CHOOSE x \in hits : \A y \in hits : x <= y
    IN IF MatchesExplicitOrDefault(fieldName, opts) THEN cp
       ELSE [i \in 1..Len(cp) |->
               IF i <= last THEN RegExpTest(cp[i], fieldName).re ELSE cp[i]]

\* a plausible slip: "<" for "<=" in the fully-masked test
maskValueOffByOne(value, opts) ==
    IF value.t \in {"null", "undefined"} THEN value
    ELSE LET str == String(value)
             n == Len(str)
         IN IF n < opts.showFirst + opts.showLast
            THEN Str(repeat(opts.maskCharacter, IF opts.preserveLength THEN n ELSE 3))
            ELSE Str(SubSeq(str, 1, opts.showFirst)
                     \o repeat(opts.maskCharacter,
                               IF opts.preserveLength
                               THEN n - opts.showFirst - opts.showLast ELSE 3)
                     \o SubSeq(str, n - opts.showLast + 1, n))

maskValue(value, opts) ==
    IF value.t \in {"null", "undefined"} THEN value
    ELSE LET str == String(value)
             n == Len(str)
         IN IF n <= opts.showFirst + opts.showLast
            THEN Str(repeat(opts.maskCharacter, IF opts.preserveLength THEN n ELSE 3))
            ELSE Str(SubSeq(str, 1, opts.showFirst)
                     \o repeat(opts.maskCharacter,
                               IF opts.preserveLength
                               THEN n - opts.showFirst - opts.showLast ELSE 3)
                     \o SubSeq(str, n - opts.showLast + 1, n))

RECURSIVE maskSensitiveDataDeep(_, _)
\* a plausible slip: nested structures are traversed before the key is tested
maskSensitiveDataDeep(d, opts) ==
    CASE d.t = "arr" ->
           Arr([i \in 1..Len(d.v) |-> maskSensitiveDataDeep(d.v[i], opts)])
      [] d.t = "obj" ->
           Obj([k \in DOMAIN d.v |->
                  IF d.v[k].t \in {"obj", "arr"}
                  THEN maskSensitiveDataDeep(d.v[k], opts)
                  ELSE IF shouldMaskField(k, opts)
                  THEN maskValue(d.v[k], opts)
                  ELSE d.v[k]])
      [] OTHER -> d

KProto == <<"_","_","p","r","o","t","o","_","_">>
KConstructor == <<"c","o","n","s","t","r","u","c","t","o","r">>

\* Object.prototype as the program finds it: its own properties (only
\* constructor is kept), a function value
ObjectPrototype == Obj(KConstructor :> [t |-> "fn", v |-> <<"O","b","j","e","c","t">>])

\* `const result = {}` after `result[key] = assigned[key]` for every key:
\* assigning to '__proto__' runs the accessor inherited from
\* Object.prototype, which makes an object or null the prototype of result
\* and ignores every other value; no own property '__proto__' is created.
\* Every other key, 'constructor' included, becomes an own property.
AssignAll(assigned) ==
    LET own == [k \in (DOMAIN assigned) \ {KProto} |-> assigned[k]]
    IN IF KProto \in DOMAIN assigned /\ assigned[KProto].t \in {"obj", "null"}
       THEN [t |-> "obj", v |-> own, proto |-> assigned[KProto]]
       ELSE Obj(own)

\* a plausible slip: the assignment merges the value into the prototype
\* result has, which is the shared Object.prototype
ProtoSetterMerging(value) ==
    IF value.t = "obj" THEN {<<k, value.v[k]>> : k \in DOMAIN value.v} ELSE {}

\* the properties `result.__proto__ = value` writes on the shared
\* Object.prototype, as <<key, value>> pairs: none
ProtoSetter(value) == {}

RECURSIVE maskSensitiveData(_, _)
RECURSIVE MaskedAt(_, _, _)
\* the value maskSensitiveData assigns to result[k] for the entry k of d
MaskedAt(d, k, opts) ==
    IF shouldMaskField(k, opts)
    THEN maskValue(d.v[k], opts)
    ELSE IF d.v[k].t \in {"obj", "arr"}
    THEN maskSensitiveData(d.v[k], opts)
    ELSE d.v[k]

\* Object.entries(data): the own enumerable keys. The custom patterns are
\* tested in the state opts holds them in: exact for patterns without flag
\* g, which is what every policy handed to this operator has (SpecField
\* follows the patterns' state from call to call)
maskSensitiveData(d, opts) ==
    CASE d.t = "arr" ->
           Arr([i \in 1..Len(d.v) |-> maskSensitiveData(d.v[i], opts)])
      [] d.t = "obj" ->
           AssignAll([k \in DOMAIN d.v |-> MaskedAt(d, k, opts)])
      [] OTHER -> d

\* a plausible slip: the masked values are assigned to the input itself
InputAfterInPlace(d, opts) == maskSensitiveData(d, opts)

\* the input after maskSensitiveData(d, opts) ran: every assignment of the
\* call is made on `result`, an object the call created, and `map` builds a
\* new array, so the input and what is nested in it hold what they held
InputAfter(d, opts) == d

RECURSIVE PrototypeWrites(_, _)
\* every write on the shared Object.prototype made while
\* maskSensitiveData(d, opts) runs
PrototypeWrites(d, opts) ==
    CASE d.t = "arr" ->
           UNION {PrototypeWrites(d.v[i], opts) : i \in 1..Len(d.v)}
      [] d.t = "obj" ->
           UNION {(IF ~shouldMaskField(k, opts) /\ d.v[k].t \in {"obj", "arr"}
                   THEN PrototypeWrites(d.v[k], opts) ELSE {})
                  \cup (IF k = KProto THEN ProtoSetter(MaskedAt(d, k, opts)) ELSE {}) :
                  k \in DOMAIN d.v}
      [] OTHER -> {}

\* the prototype after the writes W
WriteAll(proto, W) ==
    Obj([k \in (DOMAIN proto.v) \cup {w[1] : w \in W} |->
            IF \E w \in W : w[1] = k
            THEN (CHOOSE w \in W : w[1] = k)[2]
            ELSE proto.v[k]])

(***************************************************************************)
(* Inputs of the redaction engine                                          *)
(***************************************************************************)
Alphabet == {"a", "b"}
Strs == UNION {[1..k -> Alphabet] : k \in 0..MaxStrLen}

KPin == <<"p","i","n">>                              \* a built-in pattern
KPhone == <<"U","s","e","r","P","h","o","n","e">>    \* a built-in pattern, other case
KZip == <<"z","i","p">>                              \* sensitive only when listed
KId == <<"i","d">>                                   \* never sensitive
FieldZIP == <<"Z","I","P">>
Keys == {KPin, KPhone, KZip, KId}

Sab == <<"a","b">>
Sabbab == <<"a","b","b","a","b">>
ScalarVals == {Str(s) : s \in Strs} \cup {Null, Num(0), Num(12345)}
NestedVals ==
    { Obj(KPin :> Str(Sabbab)),
      Obj((KId :> Str(Sab)) @@ (KZip :> Str(Sabbab))),
      Arr(<<Str(Sab), Num(7)>>),
      Arr(<<Null, Obj(KPin :> Str(Sabbab))>>),
      EmptyObj }
SampleVals == NestedVals \cup {Str(Sabbab), Str(Sab), Null, Num(12345)}

Inputs ==
    {Obj(k :> x) : k \in Keys, x \in ScalarVals \cup NestedVals}
    \cup {Obj(KId :> Obj(k :> x)) : k \in Keys, x \in SampleVals}
    \cup {Arr(<<Obj(k :> x)>>) : k \in Keys, x \in SampleVals}
    \cup {Obj((k :> x) @@ (KId :> Str(Sab))) : k \in {KPin, KZip}, x \in SampleVals}
    \cup {Str(Sabbab), Null, Num(7), EmptyObj, Arr(<<>>)}

MaskCharacters == {<<"*">>, <<"x","y">>}
Policies ==
    {MaskingOptions(f, m, p, sf, sl) :
        f \in {<<>>, <<FieldZIP>>}, m \in MaskCharacters, p \in BOOLEAN,
        sf \in 0..MaxShow, sl \in 0..MaxShow}

(***************************************************************************)
(* Logger construction (used by every specification for the state the      *)
(* logger family is in)                                                    *)
(***************************************************************************)
DEBUG == 0
INFO == 1
WARN == 2
ERROR == 3
FATAL == 4
LogLevel == {DEBUG, INFO, WARN, ERROR, FATAL}

FieldPassword == <<"p","a","s","s","w","o","r","d">>
FieldToken == <<"t","o","k","e","n">>
FieldKey == <<"k","e","y">>
FieldSecret == <<"s","e","c","r","e","t">>
DefaultSensitiveFields == <<FieldPassword, FieldToken, FieldKey, FieldSecret>>

\* a writer instance: the ones a Logger constructs belong to it (owner), the
\* custom ones come from the config and belong to no logger
ConsoleWriter(owner) == [kind |-> "console", name |-> "console", owner |-> owner]
CustomWriter(name) == [kind |-> "custom", name |-> name, owner |-> 0]
\* new BufferedWriter(new FileWriter(filePath, maxFileSize, maxFiles))
BufferedFileWriter(owner) == [kind |-> "buffered", name |-> "file", owner |-> owner]

\* the constructor's defaults; file logging is off by default
DefaultConfig ==
    [level |-> INFO, enableConsole |-> TRUE,
     enableFile |-> FALSE, filePath |-> Undefined,
     enableApiLogging |-> TRUE, formatter |-> "none",
     sensitiveFields |-> DefaultSensitiveFields,
     customWriters |-> <<>>, middlewares |-> <<>>]

setupWriters(l, cfg) ==
    (IF cfg.enableConsole THEN <<ConsoleWriter(l)>> ELSE <<>>)
    \o (IF cfg.enableFile /\ cfg.filePath.t = "str" /\ cfg.filePath.v # <<>>
        THEN <<BufferedFileWriter(l)>> ELSE <<>>)
    \o cfg.customWriters

setupMiddlewares(cfg) == cfg.middlewares

\* the formatter of a logger: config.formatter when one is given ("none":
\* the key is absent), else the API formatter or the text formatter
setupFormatter(cfg) ==
    IF cfg.formatter # "none" THEN cfg.formatter
    ELSE IF cfg.enableApiLogging THEN "SimpleApiFormatter"
    ELSE "SimpleTextFormatter"

\* the state after `new Logger(cfg)` for the first logger
InitFamily(cfg) ==
    /\ loggers = {1}
    /\ config = (1 :> cfg)
    /\ context = (1 :> 1)
    /\ heap = (1 :> EmptyObj)
    /\ middlewares = (1 :> setupMiddlewares(cfg))
    /\ writers = (1 :> setupWriters(1, cfg))

IdleDispatch == [st |-> "idle"]
NoCall == [method |-> "none"]

\* the dispatches a behaviour keeps track of at one time: a call takes the
\* first slot whose dispatch is not suspended
DispatchOrder == <<"d1", "d2">>
Dispatches == DOMAIN disp

InitDispatch(slots) ==
    /\ disp = [d \in slots |-> IdleDispatch]
    /\ lastCall = NoCall

(***************************************************************************)
(* The parts of the state a specification leaves alone                     *)
(***************************************************************************)
\* a fraction num / den, for the quotients the metrics hold
Frac(num, den) == [num |-> num, den |-> den]

\* this.metrics as the constructor and resetMetrics build it
InitialMetrics ==
    [totalLogs |-> 0, logsByLevel |-> [lv \in LogLevel |-> 0], errorCount |-> 0,
     averageLogSize |-> Frac(0, 1), lastLogTime |-> Null, logFrequency |-> Frac(0, 1)]

\* new MetricsMiddleware(opts)
NewMetricsMiddleware(opts) ==
    [options |-> opts, metrics |-> InitialMetrics, logHistory |-> <<>>,
     totalLogSize |-> 0, published |-> Undefined, last |-> [method |-> "new"]]

MetricsIdle ==
    metricsMw = NewMetricsMiddleware([trackFrequency |-> Undefined,
                                      frequencyWindowMinutes |-> Undefined])

RateIdle ==
    /\ MetricsIdle
    /\ rlOptions = [maxLogsPerSecond |-> Undefined, maxLogsPerMinute |-> Undefined,
                    maxLogsPerHour |-> Undefined, skipLevels |-> {},
                    onRateLimitExceeded |-> FALSE]
    /\ logTimestamps = <<>>
    /\ droppedLogsCount = 0
    /\ rlEvents = <<>>

BufIdle ==
    /\ buffer = <<>>
    /\ bufferSize = 100
    /\ flushTimer = FALSE
    /\ flushes = <<>>
    /\ bwClose = "no"
    /\ sunk = <<>>
    /\ written = 0
    /\ failed = {}

FileIdle ==
    /\ files = <<>>
    /\ fw = <<>>
    /\ fwOps = {}
    /\ fwLog = [start |-> 0, rotations |-> 0, calls |-> <<>>, ok |-> {}, inos |-> 0]

SinksIdle == RateIdle /\ BufIdle /\ FileIdle

(***************************************************************************)
(* SpecMask: maskSensitiveData applied to every input under every policy,  *)
(* then applied again to its own output                                    *)
(***************************************************************************)
InitMask ==
    /\ data \in Inputs
    /\ options \in Policies
    /\ result = Null
    /\ result2 = Null
    /\ mpc = "start"
    /\ objectPrototype = ObjectPrototype
    /\ SinksIdle
    /\ nodeEnv = "production"
    /\ InitFamily(DefaultConfig)
    /\ InitDispatch({"d1"})

Mask ==
    /\ mpc = "start"
    /\ result' = maskSensitiveData(data, options)
    /\ objectPrototype' = WriteAll(objectPrototype, PrototypeWrites(data, options))
    /\ data' = InputAfter(data, options)
    /\ mpc' = "masked"
    /\ UNCHANGED <<options, result2, famVars, logVars, rlVars, bwVars, fwVars>>

Remask ==
    /\ mpc = "masked"
    /\ result2' = maskSensitiveData(result, options)
    /\ objectPrototype' = WriteAll(objectPrototype, PrototypeWrites(result, options))
    /\ result' = InputAfter(result, options)
    /\ mpc' = "remasked"
    /\ UNCHANGED <<data, options, famVars, logVars, rlVars, bwVars, fwVars>>

NextMask == Mask \/ Remask

SpecMask == InitMask /\ [][NextMask]_vars

(***************************************************************************)
(* Claims about the redaction engine                                       *)
(***************************************************************************)
SingleMask == Len(options.maskCharacter) = 1

\* the masked keys of the top-level object with a non-null value
TopMatched ==
    IF data.t = "obj"
    THEN {k \in DOMAIN data.v :
            shouldMaskField(k, options) /\ data.v[k].t \notin {"null", "undefined"}}
    ELSE {}

\* out is s with everything but the first sf and last sl characters replaced
\* by the mask character m, or all of it when sf + sl >= Len(s)
IsMaskedForm(out, s, m, sf, sl) ==
    LET n == Len(s) IN
    /\ Len(out) = n
    /\ IF sf + sl < n
       THEN /\ \A i \in 1..sf : out[i] = s[i]
            /\ \A i \in (sf + 1)..(n - sl) : out[i] = m
            /\ \A i \in (n - sl + 1)..n : out[i] = s[i]
       ELSE \A i \in 1..n : out[i] = m

C3_Idempotent ==
    (mpc = "remasked" /\ SingleMask) => result2 = result

\* a matched key whose value is a nested object or array
NestedMatched ==
    IF data.t = "obj"
    THEN {k \in DOMAIN data.v :
            shouldMaskField(k, options) /\ data.v[k].t \in {"obj", "arr"}}
    ELSE {}

Methods == {"debug", "info", "warn", "error", "fatal"}

MethodLevel(method) ==
    CASE method = "debug" -> DEBUG
      [] method = "info" -> INFO
      [] method = "warn" -> WARN
      [] method = "error" -> ERROR
      [] OTHER -> FATAL

\* LogLevel[level], the reverse mapping of the enum
getLevelName(level) ==
    CASE level = DEBUG -> "DEBUG"
      [] level = INFO -> "INFO"
      [] level = WARN -> "WARN"
      [] level = ERROR -> "ERROR"
      [] OTHER -> "FATAL"

MustBeString == "Message must be a string"

\* control characters are single tokens of the character sequences
ControlChars == {"\\x00", "\\x1F", "\\x7F", "\\n"}
SanitizeLimit == 1000

RECURSIVE StripControl(_)
StripControl(s) ==
    IF Len(s) = 0 THEN <<>>
    ELSE IF s[1] \in ControlChars THEN StripControl(Tail(s))
    ELSE <<s[1]>> \o StripControl(Tail(s))

sanitizeString(input) ==
    IF input.t # "str" THEN Str(String(input))
    ELSE LET clean == StripControl(input.v)
         IN Str(SubSeq(clean, 1, IF Len(clean) < SanitizeLimit THEN Len(clean)
                                 ELSE SanitizeLimit))

KErrorName == <<"e","r","r","o","r","N","a","m","e">>
KErrorMessage == <<"e","r","r","o","r","M","e","s","s","a","g","e">>
KErrorStack == <<"e","r","r","o","r","S","t","a","c","k">>

NoError == [present |-> FALSE, name |-> Null, message |-> Null, stack |-> Null]

\* { ...a, ...b }: own keys of both, b wins
Merge(a, b) ==
    Obj([k \in (DOMAIN a.v) \cup (DOMAIN b.v) |->
            IF k \in DOMAIN b.v THEN b.v[k] ELSE a.v[k]])

\* errorContext of error() and fatal()
errorContext(err, ctx) ==
    IF err.present
    THEN Merge(Obj((KErrorName :> sanitizeString(err.name))
                   @@ (KErrorMessage :> sanitizeString(err.message))
                   @@ (KErrorStack :> IF nodeEnv = "development"
                                      THEN err.stack ELSE Undefined)),
               ctx)
    ELSE ctx

shouldLogStrict(l, level) == level > config[l].level

shouldLog(l, level) == level >= config[l].level

\* the options maskSensitiveDataInEntry builds (maskCharacter and
\* preserveLength take maskValue's defaults)
EntryMaskingOptions(l) ==
    MaskingOptions(config[l].sensitiveFields, <<"*">>, TRUE, 2, 2)

maskSensitiveDataInEntry(l, entry) ==
    IF Len(config[l].sensitiveFields) = 0
    THEN entry
    ELSE [entry EXCEPT !.context = maskSensitiveData(entry.context, EntryMaskingOptions(l))]

\* the entry handed to maskSensitiveDataInEntry, after the call
EntryAfterMasking(l, entry) ==
    IF Len(config[l].sensitiveFields) = 0
    THEN entry
    ELSE [entry EXCEPT !.context = InputAfter(entry.context, EntryMaskingOptions(l))]

KStack == <<"s","t","a","c","k">>

\* SimpleApiFormatter.isApiLogEntry: 'method' in entry && 'url' in entry
isApiLogEntry(entry) == {"method", "url"} \subseteq DOMAIN entry

\* SimpleApiFormatter.format. The record is kept as the fields the text is
\* built from; the timestamp and request id lines are left out. An entry
\* that is no API entry goes to SimpleTextFormatter: the level name, the
\* message in string form, and the context when it has keys (Null: no
\* Context line). An API entry gives the level name, the message (the line
\* of method and url is left out) and the stack of its errorDetails when
\* that is a non-empty string; its context is not printed.
\* The request and the response body of an API entry are printed when they
\* are truthy (the bodies of the model are far below the 1000 characters of
\* JSON text above which they are left out); headers are never printed.
PrintedBody(entry, key) ==
    IF key \in DOMAIN entry /\ entry[key].t \in {"obj", "arr"} THEN entry[key] ELSE Null

format(entry) ==
    IF isApiLogEntry(entry)
    THEN [level |-> getLevelName(entry.level),
          message |-> String(entry.message),
          context |-> Null,
          stack |-> IF "errorDetails" \in DOMAIN entry
                       /\ entry.errorDetails.v[KStack].t = "str"
                       /\ entry.errorDetails.v[KStack].v # <<>>
                    THEN entry.errorDetails.v[KStack] ELSE Null,
          requestBody |-> PrintedBody(entry, "requestBody"),
          responseBody |-> PrintedBody(entry, "responseBody")]
    ELSE [level |-> getLevelName(entry.level),
          message |-> String(entry.message),
          context |-> IF DOMAIN entry.context.v = {} THEN Null ELSE entry.context,
          stack |-> Null, requestBody |-> Null, responseBody |-> Null]

NoRecord ==
    [level |-> "none", message |-> <<>>, context |-> Null, stack |-> Null,
     requestBody |-> Null, responseBody |-> Null]

WriteOutcomes == {"ok", "reject", "throw"}

\* what writer w does with this write: ConsoleWriter.write returns; a custom
\* writer returns, returns a rejected promise, or throws synchronously
WriterOutcome(w, wo) == IF w.kind \in {"console", "buffered"} THEN "ok" ELSE wo[w.name]

\* writers.map(writer => writer.write(...)): the writers are called in list
\* order with the same text and the entry's level; a synchronous throw ends
\* the map
WriterCalls(ws, wo, formattedLog, level) ==
    LET throwers == {i \in 1..Len(ws) : WriterOutcome(ws[i], wo) = "throw"}
        last == IF throwers = {} THEN Len(ws)
                ELSE CHOOSE i \in throwers : \A j \in throwers : i <= j
    IN [i \in 1..last |-> [writer |-> ws[i], outcome |-> WriterOutcome(ws[i], wo),
                            text |-> formattedLog, level |-> level]]

\* a custom formatter of the config whose format() throws
ThrowingFormatter == "throwing"

\* this.formatter.format(maskedEntry) of the logger's formatter
FormatterFormat(formatter, maskedEntry) ==
    CASE formatter = ThrowingFormatter -> [threw |-> TRUE, text |-> NoRecord]
      [] formatter = "SimpleTextFormatter" ->
            [threw |-> FALSE,
             text |-> format([level |-> maskedEntry.level,
                              message |-> maskedEntry.message,
                              context |-> maskedEntry.context])]
      [] OTHER -> [threw |-> FALSE, text |-> format(maskedEntry)]

\* mask, format once, hand the text and the level to every writer, await
\* them all; no try/catch: a throw of format() or of a writer's write()
\* rejects the promise of processLogEntry
processLogEntry(dr, wo) ==
    LET maskedEntry == maskSensitiveDataInEntry(dr.logger, dr.entry)
        formatted == FormatterFormat(setupFormatter(config[dr.logger]), maskedEntry)
        formattedLog == formatted.text
        calls == WriterCalls(writers[dr.logger], wo, formattedLog, dr.entry.level)
        threw == \E i \in 1..Len(calls) : calls[i].outcome = "throw"
    IN IF formatted.threw
       THEN [dr EXCEPT !.formats = @ + 1, !.formatted = maskedEntry,
                       !.entry = EntryAfterMasking(dr.logger, dr.entry),
                       !.st = "failed", !.failedAt = "formatter"]
       ELSE [dr EXCEPT !.formats = @ + 1, !.formatted = maskedEntry,
                       !.entry = EntryAfterMasking(dr.logger, dr.entry),
                       !.record = formattedLog,
                       !.calls = calls,
                       !.st = IF threw THEN "failed" ELSE "done",
                       !.failedAt = IF threw THEN "writer" ELSE "none"]

Stages == {"A", "B"}
\* a stage of kind "async" awaits something of its own before it decides
StageKind(m) == IF m = "A" THEN "sync" ELSE "async"
SyncStages == {m \in Stages : StageKind(m) = "sync"}
StageOutcomes == {"proceed", "stop", "throw"}

\* the position executeMiddlewarePipeline's next() reads
StageAtReversed(mws, index) == mws[Len(mws) - index]

StageAt(mws, index) == mws[index + 1]

RECURSIVE next(_, _, _)
RECURSIVE Decide(_, _, _, _)

\* the running stage decides: it calls next() once, returns without calling
\* it, or throws
Decide(dr, o, oc, wo) ==
    CASE o = "proceed" -> next([dr EXCEPT !.procs = @ + 1], oc, wo)
      [] o = "stop" -> [dr EXCEPT !.st = "stopped"]
      [] OTHER -> [dr EXCEPT !.st = "failed", !.failedAt = "stage"]

\* the closure next() of executeMiddlewarePipeline, run until the dispatch
\* suspends inside a stage or ends; this.middlewares is read at each call
next(dr, oc, wo) ==
    LET mws == middlewares[dr.logger] IN
    IF dr.index >= Len(mws)
    THEN processLogEntry(dr, wo)
    ELSE LET m == StageAt(mws, dr.index)
             dr1 == [dr EXCEPT !.index = @ + 1, !.ran = Append(@, m)]
         IN IF StageKind(m) = "async"
            THEN [dr1 EXCEPT !.st = "suspended"]
            ELSE Decide(dr1, oc[m], oc, wo)

NewDispatch(l, entry) ==
    [st |-> "running", logger |-> l, entry |-> entry, given |-> entry, index |-> 0,
     ran |-> <<>>,
     procs |-> 0, snap |-> middlewares[l], changed |-> FALSE,
     calls |-> <<>>, record |-> NoRecord, formats |-> 0, formatted |-> entry,
     failedAt |-> "none", caught |-> FALSE]

InFlight(d) == disp[d].st = "suspended"
HasFreeSlot == \E d \in Dispatches : ~InFlight(d)
FreeSlot ==
    DispatchOrder[CHOOSE i \in 1..Len(DispatchOrder) :
        /\ DispatchOrder[i] \in Dispatches /\ ~InFlight(DispatchOrder[i])
        /\ \A j \in 1..(i - 1) :
              DispatchOrder[j] \in Dispatches => InFlight(DispatchOrder[j])]

\* the writes on the shared Object.prototype of the masking of one entry
EntryPrototypeWrites(l, entry) ==
    IF Len(config[l].sensitiveFields) = 0 THEN {}
    ELSE PrototypeWrites(entry.context, EntryMaskingOptions(l))

\* Object.prototype after the steps a dispatch took: processLogEntry, when
\* the dispatch reached it, masked the entry
DispatchPrototype(formatsBefore, dr) ==
    IF dr.formats > formatsBefore
    THEN WriteAll(objectPrototype, EntryPrototypeWrites(dr.logger, dr.entry))
    ELSE objectPrototype

\* error() and fatal() validate the message; debug(), info() and warn() do not
ValidatesMessage(method) == method \in {"error", "fatal"}

\* one call of logger l's entry point `method`: the whole synchronous part of
\* debug/info/warn/error/fatal -> log -> writeLog -> executeMiddlewarePipeline.
\* log() does not await writeLog and attaches no handler to its promise.
Log(l, method, message, err, ctx, oc, wo) ==
    /\ l \in loggers
    /\ HasFreeSlot
    /\ (~ValidatesMessage(method)) => err = NoError
    /\ UNCHANGED <<maskCallVars, rlVars, bwVars, fwVars, famVars>>
    /\ IF ValidatesMessage(method) /\ message.t # "str"
       THEN /\ lastCall' = [method |-> method, logger |-> l, level |-> MethodLevel(method),
                            typeof |-> message.t, threw |-> MustBeString,
                            created |-> FALSE, slot |-> "none"]
            /\ UNCHANGED <<disp, objectPrototype>>
       ELSE LET level == MethodLevel(method)
                entry == [level |-> level, message |-> message,
                          context |-> Merge(heap[context[l]],
                                            IF ValidatesMessage(method)
                                            THEN errorContext(err, ctx) ELSE ctx)]
            IN IF ~shouldLog(l, entry.level)
               THEN /\ lastCall' = [method |-> method, logger |-> l, level |-> level,
                                    typeof |-> message.t, threw |-> "none",
                                    created |-> TRUE, slot |-> "none"]
                    /\ UNCHANGED <<disp, objectPrototype>>
               ELSE /\ lastCall' = [method |-> method, logger |-> l, level |-> level,
                                    typeof |-> message.t, threw |-> "none",
                                    created |-> TRUE, slot |-> FreeSlot]
                    /\ disp' = [disp EXCEPT ![FreeSlot] = next(NewDispatch(l, entry), oc, wo)]
                    /\ objectPrototype' =
                          DispatchPrototype(0, next(NewDispatch(l, entry), oc, wo))

\* a suspended stage resumes and decides
Resume(d, o, oc, wo) ==
    /\ disp[d].st = "suspended"
    /\ disp' = [disp EXCEPT ![d] = Decide(disp[d], o, oc, wo)]
    /\ objectPrototype' = DispatchPrototype(disp[d].formats, Decide(disp[d], o, oc, wo))
    /\ UNCHANGED <<maskCallVars, rlVars, bwVars, fwVars, famVars, lastCall>>

\* dispatches of logger l that are suspended see this.middlewares change
MarkChanged(l, newList) ==
    [d \in Dispatches |->
        IF disp[d].st = "suspended" /\ disp[d].logger = l /\ newList # middlewares[l]
        THEN [disp[d] EXCEPT !.changed = TRUE]
        ELSE disp[d]]

\* a plausible slip: child() hands on the parent's array instead of a copy
SharesListWithFamily(l) == loggers

\* the loggers whose this.middlewares is the array object logger l holds:
\* the constructor and child() both store a fresh copy (`[...list]`), so
\* no two loggers hold the same array
SharesList(l) == {l}

\* this.middlewares.push(middleware): the array object is changed in place
use(l, m) ==
    /\ l \in loggers
    /\ middlewares' = [x \in loggers |->
                          IF x \in SharesList(l) THEN Append(middlewares[x], m)
                          ELSE middlewares[x]]
    /\ disp' = MarkChanged(l, Append(middlewares[l], m))
    /\ UNCHANGED <<maskVars, rlVars, bwVars, fwVars, loggers, config, context, heap, writers, nodeEnv, lastCall>>

\* this.middlewares.filter(middleware => middleware.name !== middlewareName)
FilterOutName(seq, middlewareName) ==
    LET F[i \in 0..Len(seq)] ==
            IF i = 0 THEN <<>>
            ELSE IF seq[i] # middlewareName THEN Append(F[i - 1], seq[i]) ELSE F[i - 1]
    IN F[Len(seq)]

removeMiddleware(l, middlewareName) ==
    LET kept == FilterOutName(middlewares[l], middlewareName) IN
    /\ l \in loggers
    /\ middlewares' = [middlewares EXCEPT ![l] = kept]
    /\ disp' = MarkChanged(l, kept)
    /\ UNCHANGED <<maskVars, rlVars, bwVars, fwVars, loggers, config, context, heap, writers, nodeEnv, lastCall>>

clearMiddlewares(l) ==
    /\ l \in loggers
    /\ middlewares' = [middlewares EXCEPT ![l] = <<>>]
    /\ disp' = MarkChanged(l, <<>>)
    /\ UNCHANGED <<maskVars, rlVars, bwVars, fwVars, loggers, config, context, heap, writers, nodeEnv, lastCall>>

(* SpecLog: one logger, any severity threshold, with or without configured *)
(* sensitive fields, with or without a synchronous stage; every entry      *)
(* point is called with a string or a non-string message and with every    *)
(* context                                                                 *)
(***************************************************************************)
MaskIdle ==
    /\ data = Null
    /\ options = MaskingOptions(<<>>, <<"*">>, TRUE, 0, 0)
    /\ result = Null
    /\ result2 = Null
    /\ mpc = "off"
    /\ objectPrototype = ObjectPrototype

CustomWriterNames == {"w1", "w2", "w3"}
AllOk == [n \in CustomWriterNames |-> "ok"]

Messages == {Str(<<"m">>), Num(123)}

CallContexts ==
    { EmptyObj,
      Obj((KPin :> Str(Sabbab)) @@ (KId :> Str(Sab))),
      Obj(KId :> Obj(FieldPassword :> Str(Sabbab))) }

InitLog ==
    /\ MaskIdle
    /\ SinksIdle
    /\ nodeEnv = "production"
    /\ \E lv \in LogLevel, sf \in {<<>>, DefaultSensitiveFields}, mw \in {<<>>, <<"A">>} :
          InitFamily([DefaultConfig EXCEPT
                         !.level = lv, !.sensitiveFields = sf,
                         !.customWriters = <<CustomWriter("w1")>>,
                         !.middlewares = mw])
    /\ InitDispatch({"d1"})

NextLog ==
    \E method \in Methods, message \in Messages, ctx \in CallContexts,
       oc \in [SyncStages -> StageOutcomes] :
        Log(1, method, message, NoError, ctx, oc, AllOk)

SpecLog == InitLog /\ [][NextLog]_vars

(***************************************************************************)
(* Claims about the entry points, the severity filter and the final step   *)
(***************************************************************************)
RECURSIVE OnlyMasked(_, _, _)
\* out shows of orig, under every key the policy matches, nothing but the
\* first two and last two characters of the value's string form
OnlyMasked(orig, out, opts) ==
    CASE orig.t = "obj" ->
           /\ out.t = "obj"
           /\ DOMAIN out.v = DOMAIN orig.v
           /\ \A k \in DOMAIN orig.v :
                IF shouldMaskField(k, opts)
                THEN IF orig.v[k].t \in {"null", "undefined"}
                     THEN out.v[k] = orig.v[k]
                     ELSE /\ out.v[k].t = "str"
                          /\ IsMaskedForm(out.v[k].v, String(orig.v[k]), "*", 2, 2)
                ELSE OnlyMasked(orig.v[k], out.v[k], opts)
      [] orig.t = "arr" ->
           /\ out.t = "arr"
           /\ Len(out.v) = Len(orig.v)
           /\ \A i \in 1..Len(orig.v) : OnlyMasked(orig.v[i], out.v[i], opts)
      [] OTHER -> TRUE

Delivered(d) == disp[d].st # "idle" /\ disp[d].calls # <<>>

\* C1 (as claimed): under every configuration, the empty sensitive-field
\* list included, every record handed to a sink shows each context attribute
\* whose key matches a listed field or a built-in pattern only in masked form.
C1_SinksSeeOnlyMasked ==
    \A d \in Dispatches :
        (Delivered(d) /\ DOMAIN disp[d].entry.context.v # {}) =>
            OnlyMasked(disp[d].entry.context, disp[d].record.context,
                       EntryMaskingOptions(disp[d].logger))

\* C5 (as claimed): every entry point called with a non-string message
\* throws 'Message must be a string' and creates no event.
C5_NonStringRejected ==
    (lastCall.method \in Methods /\ lastCall.typeof # "str") =>
        /\ lastCall.threw = MustBeString
        /\ ~lastCall.created
        /\ lastCall.slot = "none"

CallStep == lastCall' # lastCall

\* C6: no dispatch ever holds an event below its logger's threshold; a call
\* with an event below the threshold leaves every dispatch (stages run,
\* writers called) as it was; a call with an event at or above the threshold
\* starts a dispatch that enters the chain (the first stage is invoked, or
\* with no stage registered the final step runs).
C6_LevelFilter ==
    [][ /\ \A d \in Dispatches :
              disp'[d].st # "idle" =>
                  disp'[d].entry.level >= config'[disp'[d].logger].level
        /\ (CallStep /\ lastCall'.created) =>
              IF lastCall'.level < config[lastCall'.logger].level
              THEN lastCall'.slot = "none" /\ disp' = disp
              ELSE /\ lastCall'.slot # "none"
                   /\ LET dr == disp'[lastCall'.slot] IN
                      /\ dr.entry.level = lastCall'.level
                      /\ IF middlewares[lastCall'.logger] = <<>>
                         THEN dr.record # NoRecord
                         ELSE dr.ran # <<>>
      ]_vars

C6_Witness ==
    /\ lastCall.method = "info" /\ lastCall.created
    /\ config[1].level = WARN
    /\ lastCall.slot = "none"
    /\ disp["d1"].st = "done" /\ disp["d1"].entry.level = WARN
    /\ disp["d1"].ran = <<"A">>

(***************************************************************************)
(* SpecSink: every list of up to three distinct custom writers, with or    *)
(* without the console writer; each write is accepted, rejected or thrown  *)
(***************************************************************************)
WriterLists ==
    {ws \in UNION {[1..k -> CustomWriterNames] : k \in 0..3} :
        \A i, j \in 1..Len(ws) : i # j => ws[i] # ws[j]}

InitSink ==
    /\ MaskIdle
    /\ SinksIdle
    /\ nodeEnv = "production"
    /\ \E con \in BOOLEAN, ws \in WriterLists :
          InitFamily([DefaultConfig EXCEPT
                         !.enableConsole = con,
                         !.customWriters = [i \in 1..Len(ws) |-> CustomWriter(ws[i])]])
    /\ InitDispatch({"d1"})

NextSink ==
    \E method \in {"info", "warn"}, wo \in [CustomWriterNames -> WriteOutcomes] :
        Log(1, method, Str(<<"m">>), NoError, EmptyObj, [m \in SyncStages |-> "proceed"], wo)

SpecSink == InitSink /\ [][NextSink]_vars

\* C9 (as claimed): when one writer's write fails, by a synchronous throw or
\* a rejected promise, at any place of the list, every other registered
\* writer is still handed the record.
C9_OtherSinksStillReceive ==
    \A d \in Dispatches :
        disp[d].st \in {"done", "failed"} /\ disp[d].record # NoRecord =>
            \A i \in 1..Len(writers[disp[d].logger]) :
                \E j \in 1..Len(disp[d].calls) :
                    disp[d].calls[j].writer = writers[disp[d].logger][i]

(***************************************************************************)
(* SpecChain: one logger whose stage list is edited with use,              *)
(* removeMiddleware and clearMiddlewares while dispatches run; stage A     *)
(* decides at once, stage B suspends first                                 *)
(***************************************************************************)
MaxStages == 2      \* longest stage list built with use

InitChain ==
    /\ MaskIdle
    /\ SinksIdle
    /\ nodeEnv = "production"
    /\ InitFamily(DefaultConfig)
    /\ InitDispatch({"d1"})

NextChain ==
    \/ \E method \in {"info", "debug"}, oc \in [SyncStages -> StageOutcomes] :
          Log(1, method, Str(<<"m">>), NoError, EmptyObj, oc, AllOk)
    \/ \E d \in Dispatches, o \in StageOutcomes, oc \in [SyncStages -> StageOutcomes] :
          Resume(d, o, oc, AllOk)
    \/ \E m \in Stages : Len(middlewares[1]) < MaxStages /\ use(1, m)
    \/ \E m \in Stages : removeMiddleware(1, m)
    \/ clearMiddlewares(1)

SpecChain == InitChain /\ [][NextChain]_vars

C8_StageFailureCaught ==
    \A d \in Dispatches :
        (disp[d].st = "failed" /\ disp[d].failedAt = "stage") => disp[d].caught

(***************************************************************************)
(* Context management and child()                                          *)
(***************************************************************************)
MaxLoggers == 2     \* loggers of one family (the first one and its descendants)

Ctx(l) == heap[context[l]]

\* the address of a newly allocated object: one no logger refers to
NewAddr ==
    CHOOSE a \in 1..(Cardinality(loggers) + 1) :
        /\ a \notin {context[l] : l \in loggers}
        /\ \A b \in 1..(a - 1) : b \in {context[l] : l \in loggers}

\* objects no logger refers to any more are collected
Collect(h, ctx) == [a \in {ctx[l] : l \in DOMAIN ctx} |-> h[a]]

setContext(l, key, value) ==
    /\ l \in loggers
    /\ heap' = [heap EXCEPT ![context[l]] =
                   Obj([k \in (DOMAIN @.v) \cup {key} |->
                           IF k = key THEN value ELSE @.v[k]])]
    /\ lastCall' = [method |-> "setContext", logger |-> l, arg |-> Obj(key :> value),
                    made |-> 0]
    /\ UNCHANGED <<maskVars, rlVars, bwVars, fwVars, loggers, config, context, middlewares, writers, nodeEnv, disp>>

clearContext(l) ==
    /\ l \in loggers
    /\ LET a == NewAddr
           ctx1 == [context EXCEPT ![l] = a]
       IN /\ context' = ctx1
          /\ heap' = Collect([x \in (DOMAIN heap) \cup {a} |->
                                 IF x = a THEN EmptyObj ELSE heap[x]], ctx1)
    /\ lastCall' = [method |-> "clearContext", logger |-> l, arg |-> EmptyObj, made |-> 0]
    /\ UNCHANGED <<maskVars, rlVars, bwVars, fwVars, loggers, config, middlewares, writers, nodeEnv, disp>>

\* a plausible slip: childLogger.context = Object.assign(this.context, context)
ChildContextAddrShared(l) == context[l]

\* childLogger.context = { ...this.context, ...context }: a new object
ChildContextAddr(l) == NewAddr

child(l, ctx) ==
    /\ l \in loggers
    /\ LET c == Cardinality(loggers) + 1
           a == ChildContextAddr(l)
       IN /\ loggers' = loggers \cup {c}
          /\ config' = config @@ (c :> config[l])
          /\ writers' = writers @@ (c :> setupWriters(c, config[l]))
          /\ middlewares' = middlewares @@ (c :> middlewares[l])
          /\ context' = context @@ (c :> a)
          /\ heap' = [x \in (DOMAIN heap) \cup {a} |->
                         IF x = a THEN Merge(Ctx(l), ctx) ELSE heap[x]]
          /\ lastCall' = [method |-> "child", logger |-> l, arg |-> ctx, made |-> c]
    /\ UNCHANGED <<maskVars, rlVars, bwVars, fwVars, nodeEnv, disp>>

(***************************************************************************)
(* SpecCtx: a logger family built with child(), whose members' contexts    *)
(* are set and cleared in any order                                        *)
(***************************************************************************)
CtxValues == {Str(Sab), Num(7)}
ChildContexts ==
    {EmptyObj} \cup {Obj(KId :> x) : x \in CtxValues}
    \cup {Obj((KId :> Num(7)) @@ (KZip :> Str(Sab)))}

InitCtx ==
    /\ MaskIdle
    /\ SinksIdle
    /\ nodeEnv = "production"
    /\ InitFamily(DefaultConfig)
    /\ InitDispatch({"d1"})

NextCtx ==
    \/ \E l \in loggers, x \in CtxValues : setContext(l, KId, x)
    \/ \E l \in loggers : setContext(l, KZip, Str(Sab))
    \/ \E l \in loggers : clearContext(l)
    \/ \E l \in loggers, ctx \in ChildContexts :
          Cardinality(loggers) < MaxLoggers /\ child(l, ctx)

SpecCtx == InitCtx /\ [][NextCtx]_vars

CtxAfter(l) == heap'[context'[l]]

\* C10: child(extra) gives the child the parent's context overridden by
\* extra (the child's keys win) and leaves the parent's context as it was;
\* afterwards setContext and clearContext on one logger change the context
\* of no other logger of the family, parent or child.
C10_ContextByValue ==
    [][ /\ lastCall'.method = "child" /\ loggers' # loggers =>
              /\ CtxAfter(lastCall'.made) = Merge(Ctx(lastCall'.logger), lastCall'.arg)
              /\ \A k \in DOMAIN lastCall'.arg.v :
                    CtxAfter(lastCall'.made).v[k] = lastCall'.arg.v[k]
              /\ \A l \in loggers : CtxAfter(l) = Ctx(l)
        /\ lastCall'.method \in {"setContext", "clearContext"} =>
              \A l \in loggers : l # lastCall'.logger => CtxAfter(l) = Ctx(l)
      ]_vars

\* the parent got a key after the child was made, and the child lacks it
C10_Witness ==
    /\ 2 \in loggers
    /\ lastCall.method = "setContext" /\ lastCall.logger = 1
    /\ lastCall.arg = Obj(KZip :> Str(Sab))
    /\ Ctx(1) = Obj((KId :> Str(Sab)) @@ (KZip :> Str(Sab)))
    /\ Ctx(2) = Obj(KId :> Num(7))


(***************************************************************************)
(* SpecFamily: a logger of any sink configuration, its children, and the   *)
(* stage lists of the family edited in any order                           *)
(***************************************************************************)
LogPath == Str(<<"a", ".", "l", "o", "g">>)

FamilyConfigs ==
    {[DefaultConfig EXCEPT !.enableConsole = c, !.enableFile = f, !.filePath = LogPath,
                           !.customWriters = cw, !.middlewares = mw] :
        c \in BOOLEAN, f \in BOOLEAN,
        cw \in {<<>>, <<CustomWriter("w1")>>}, mw \in {<<"A">>}}

\* the contexts given to child() when the claim is about stages and sinks
FamilyContexts == {EmptyObj, Obj(KId :> Num(7))}

InitFamilySpec ==
    /\ MaskIdle
    /\ SinksIdle
    /\ nodeEnv = "production"
    /\ \E cfg \in FamilyConfigs : InitFamily(cfg)
    /\ InitDispatch({"d1"})

NextFamily ==
    \/ \E l \in loggers, ctx \in FamilyContexts :
          Cardinality(loggers) < MaxLoggers /\ child(l, ctx)
    \/ \E l \in loggers, m \in Stages : Len(middlewares[l]) < MaxStages /\ use(l, m)
    \/ \E l \in loggers, m \in Stages : removeMiddleware(l, m)
    \/ \E l \in loggers : clearMiddlewares(l)

SpecFamily == InitFamilySpec /\ [][NextFamily]_vars

\* C11 (as claimed): the logger child() returns has the stage instances and
\* the sink instances of its parent: child() makes no new sink.
C11_ChildSharesInstances ==
    [][(lastCall'.method = "child" /\ loggers' # loggers) =>
          /\ middlewares'[lastCall'.made] = middlewares[lastCall'.logger]
          /\ writers'[lastCall'.made] = writers[lastCall'.logger]
      ]_vars

(***************************************************************************)
(* RateLimitMiddleware (src/middlewares/rate-limit-middleware.ts)          *)
(***************************************************************************)
SecondMs == 1000
MinuteMs == 60000
HourMs == 3600000
DefaultMaxLogsPerSecond == 100

\* RateLimitOptions as given to the constructor: a cap is Undefined (the key
\* is absent or undefined) or a number
RateLimitOptions(perSecond, perMinute, perHour, skipLevels, onRateLimitExceeded) ==
    [maxLogsPerSecond |-> perSecond, maxLogsPerMinute |-> perMinute,
     maxLogsPerHour |-> perHour, skipLevels |-> skipLevels,
     onRateLimitExceeded |-> onRateLimitExceeded]

\* constructor: { maxLogsPerSecond: 100, ...options }. absent says whether the
\* key maxLogsPerSecond is missing from the options (an explicit undefined
\* overrides the default)
RateLimitConstructor(opts, absent) ==
    IF absent THEN [opts EXCEPT !.maxLogsPerSecond = Num(DefaultMaxLogsPerSecond)]
    ELSE opts

\* the truthiness test `if (this.options.maxLogsPerX)`
Truthy(cap) == cap.t = "num" /\ cap.v # 0

RECURSIVE FilterNewer(_, _)
\* timestamps.filter(timestamp => timestamp > start)
FilterNewer(ts, start) ==
    IF ts = <<>> THEN <<>>
    ELSE (IF Head(ts) > start THEN <<Head(ts)>> ELSE <<>>) \o FilterNewer(Tail(ts), start)

RECURSIVE FilterNotOlder(_, _)
FilterNotOlder(ts, start) ==
    IF ts = <<>> THEN <<>>
    ELSE (IF Head(ts) >= start THEN <<Head(ts)>> ELSE <<>>) \o FilterNotOlder(Tail(ts), start)

cleanOldTimestamps(ts, now) == FilterNewer(ts, now - HourMs)

\* a plausible slip: the window includes its start (timestamp >= windowStart)
getLogsInWindowInclusive(ts, now, windowMs) == Len(FilterNotOlder(ts, now - windowMs))

getLogsInWindow(ts, now, windowMs) == Len(FilterNewer(ts, now - windowMs))

\* a plausible slip: `>` where the code has `>=`
isRateLimitExceededStrict(opts, ts, now) ==
    \/ Truthy(opts.maxLogsPerSecond)
         /\ getLogsInWindow(ts, now, SecondMs) > opts.maxLogsPerSecond.v
    \/ Truthy(opts.maxLogsPerMinute)
         /\ getLogsInWindow(ts, now, MinuteMs) > opts.maxLogsPerMinute.v
    \/ Truthy(opts.maxLogsPerHour)
         /\ getLogsInWindow(ts, now, HourMs) > opts.maxLogsPerHour.v

isRateLimitExceeded(opts, ts, now) ==
    \/ Truthy(opts.maxLogsPerSecond)
         /\ getLogsInWindow(ts, now, SecondMs) >= opts.maxLogsPerSecond.v
    \/ Truthy(opts.maxLogsPerMinute)
         /\ getLogsInWindow(ts, now, MinuteMs) >= opts.maxLogsPerMinute.v
    \/ Truthy(opts.maxLogsPerHour)
         /\ getLogsInWindow(ts, now, HourMs) >= opts.maxLogsPerHour.v

\* what one call did: outcome "exempt" and "passed" call next(), "dropped"
\* returns without it; callback is the argument onRateLimitExceeded was
\* called with (0: it was not called)
RateEvent(level, now, outcome, callback) ==
    [level |-> level, now |-> now, outcome |-> outcome, callback |-> callback]

\* execute(entry, context, next) with entry.level = level, entry.timestamp = now
\* a plausible slip: skipLevels is not consulted
IsExemptNever(level) == FALSE

\* this.options.skipLevels?.includes(entry.level)
IsExempt(level) == level \in rlOptions.skipLevels

RateLimitExecute(level, now) ==
    /\ IF IsExempt(level)
       THEN /\ rlEvents' = Append(rlEvents, RateEvent(level, now, "exempt", 0))
            /\ UNCHANGED <<logTimestamps, droppedLogsCount>>
       ELSE LET kept == cleanOldTimestamps(logTimestamps, now)
            IN IF isRateLimitExceeded(rlOptions, kept, now)
               THEN /\ droppedLogsCount' = droppedLogsCount + 1
                    /\ logTimestamps' = kept
                    /\ rlEvents' = Append(rlEvents,
                          RateEvent(level, now, "dropped",
                                    IF rlOptions.onRateLimitExceeded
                                    THEN droppedLogsCount + 1 ELSE 0))
               ELSE /\ logTimestamps' = Append(kept, now)
                    /\ rlEvents' = Append(rlEvents, RateEvent(level, now, "passed", 0))
                    /\ UNCHANGED droppedLogsCount
    /\ UNCHANGED <<rlOptions, metricsMw, maskVars, famVars, logVars, bwVars, fwVars>>

resetDroppedLogsCount ==
    /\ droppedLogsCount' = 0
    /\ rlEvents' = Append(rlEvents,
                          RateEvent(-1, IF rlEvents = <<>> THEN 0
                                        ELSE rlEvents[Len(rlEvents)].now, "reset", 0))
    /\ UNCHANGED <<rlOptions, logTimestamps, metricsMw, maskVars, famVars, logVars, bwVars, fwVars>>

getDroppedLogsCount == droppedLogsCount

(***************************************************************************)
(* SpecRate: one rate limiter, fed events whose timestamps never go back   *)
(* (entry.timestamp is new Date() of the call)                             *)
(***************************************************************************)
MaxEvents == 4      \* calls made on the rate limiter

\* the time between two events: none, just under and exactly a second, and
\* what completes a minute and an hour
Gaps == {0, 1, SecondMs - 1, MinuteMs - SecondMs, HourMs - MinuteMs}

RateConfigs ==
    { \* the example of examples/basic-usage.ts
      RateLimitConstructor(
          RateLimitOptions(Num(2), Num(3), Undefined, {FATAL}, TRUE), FALSE),
      RateLimitConstructor(
          RateLimitOptions(Num(1), Undefined, Num(2), {}, TRUE), FALSE),
      \* only a minute cap given: the second cap is the default
      RateLimitConstructor(
          RateLimitOptions(Undefined, Num(2), Undefined, {FATAL}, FALSE), TRUE),
      \* the second cap switched off
      RateLimitConstructor(
          RateLimitOptions(Undefined, Num(1), Num(3), {}, TRUE), FALSE),
      RateLimitConstructor(
          RateLimitOptions(Num(0), Num(2), Undefined, {}, TRUE), FALSE) }

RateLevels == {INFO, FATAL}

InitRate ==
    /\ MaskIdle
    /\ nodeEnv = "production"
    /\ InitFamily(DefaultConfig)
    /\ InitDispatch({"d1"})
    /\ BufIdle
    /\ FileIdle
    /\ rlOptions \in RateConfigs
    /\ logTimestamps = <<>>
    /\ droppedLogsCount = 0
    /\ rlEvents = <<>>
    /\ MetricsIdle

LastNow == IF rlEvents = <<>> THEN 0 ELSE rlEvents[Len(rlEvents)].now

NextRate ==
    \/ \E level \in RateLevels, gap \in Gaps :
          Len(rlEvents) < MaxEvents /\ RateLimitExecute(level, LastNow + gap)
    \/ Len(rlEvents) < MaxEvents /\ droppedLogsCount > 0 /\ resetDroppedLogsCount

SpecRate == InitRate /\ [][NextRate]_vars

(***************************************************************************)
(* Claims about the rate limiter                                           *)
(***************************************************************************)
EventIds == 1..Len(rlEvents)
Counted(k) == rlEvents[k].outcome \in {"passed", "dropped"}    \* non-exempt events
Passed(k) == rlEvents[k].outcome = "passed"
Dropped(k) == rlEvents[k].outcome = "dropped"

\* the passed events before event k whose timestamps are in (lo, now of k]
PassedBefore(k, lo) ==
    Cardinality({e \in 1..(k - 1) :
                    Passed(e) /\ rlEvents[e].now > lo /\ rlEvents[e].now <= rlEvents[k].now})

\* all the passed events whose timestamps are in (lo, hi]
PassedIn(lo, hi) ==
    Cardinality({e \in EventIds :
                    Passed(e) /\ rlEvents[e].now > lo /\ rlEvents[e].now <= hi})

\* the drops up to event k since the dropped count was last reset
DropsSince(k) ==
    Cardinality({e \in 1..k :
                    Dropped(e) /\ \A r \in e..k : rlEvents[r].outcome # "reset"})

\* the windows with a cap of at least 1, as <<duration, cap>>
CappedWindows ==
    {w \in {<<SecondMs, rlOptions.maxLogsPerSecond>>,
            <<MinuteMs, rlOptions.maxLogsPerMinute>>,
            <<HourMs, rlOptions.maxLogsPerHour>>} : Truthy(w[2])}

\* events i..j are a burst within one second that starts on an empty
\* second window and during which no minute or hour cap is reached
Burst(i, j) ==
    /\ i <= j
    /\ rlEvents[j].now - rlEvents[i].now < SecondMs
    /\ PassedBefore(i, rlEvents[i].now - SecondMs) = 0
    /\ \A k \in i..j : Counted(k) =>
          \A w \in CappedWindows :
             w[1] # SecondMs => PassedBefore(k, rlEvents[k].now - w[1]) < w[2].v

RemoveAt(seq, i) == [j \in 1..(Len(seq) - 1) |-> IF j < i THEN seq[j] ELSE seq[j + 1]]

\* scheduleFlush(): setTimeout arms the timer
scheduleFlush == TRUE

\* a plausible slip: flush only drains a full buffer
FlushReturnsEarlyBelowSize(buf) == Len(buf) < bufferSize

\* `if (this.buffer.length === 0) return;`
FlushReturnsEarly(buf) == Len(buf) = 0

\* const logsToFlush = [...this.buffer]
Snapshot(buf) == buf

\* flush() on the buffer buf, up to its first await: the batch is taken, the
\* buffer emptied and the wrapped write of the first record called
FlushStart(buf, byClose) ==
    IF FlushReturnsEarly(buf)
    THEN /\ buffer' = buf
         /\ UNCHANGED <<flushes, sunk>>
    ELSE /\ buffer' = <<>>
         /\ sunk' = Append(sunk, Snapshot(buf)[1])
         /\ flushes' = Append(flushes,
                              [batch |-> Snapshot(buf), pos |-> 1, byClose |-> byClose])

\* a plausible slip: ">" for ">="
ReachedCapacityStrict(buf) == Len(buf) > bufferSize

\* `this.buffer.length >= this.bufferSize`
ReachedCapacity(buf) == Len(buf) >= bufferSize

\* write(formattedLog, level): the record is the next number
BufferedWrite ==
    /\ written' = written + 1
    /\ LET buf == Append(buffer, written + 1)
       IN IF ReachedCapacity(buf)
          THEN FlushStart(buf, FALSE)
          ELSE buffer' = buf /\ UNCHANGED <<flushes, sunk>>
    /\ UNCHANGED <<bufferSize, flushTimer, bwClose, failed>>
    /\ UNCHANGED <<maskVars, famVars, logVars, rlVars, fwVars>>

\* the timer's callback: this.flush(); this.scheduleFlush()
TimerFire ==
    /\ flushTimer
    /\ FlushStart(buffer, FALSE)
    /\ flushTimer' = scheduleFlush
    /\ UNCHANGED <<bufferSize, bwClose, written, failed>>
    /\ UNCHANGED <<maskVars, famVars, logVars, rlVars, fwVars>>

\* close(): clearTimeout, then await this.flush()
BufferedClose ==
    /\ bwClose = "no"
    /\ flushTimer' = FALSE
    /\ FlushStart(buffer, TRUE)
    /\ bwClose' = IF FlushReturnsEarly(buffer) THEN "resolved" ELSE "pending"
    /\ UNCHANGED <<bufferSize, written, failed>>
    /\ UNCHANGED <<maskVars, famVars, logVars, rlVars, fwVars>>

\* the wrapped write that flush i awaits settles; on "resolve" the loop goes
\* on to the next record of the batch or the flush ends, on "reject" the
\* await throws and the flush ends there
TargetSettle(i, outcome) ==
    /\ i \in DOMAIN flushes
    /\ LET f == flushes[i]
       IN IF outcome = "resolve" /\ f.pos < Len(f.batch)
          THEN /\ sunk' = Append(sunk, f.batch[f.pos + 1])
               /\ flushes' = [flushes EXCEPT ![i].pos = f.pos + 1]
               /\ UNCHANGED <<bwClose, failed>>
          ELSE /\ flushes' = RemoveAt(flushes, i)
               /\ bwClose' = IF ~f.byClose THEN bwClose
                             ELSE IF outcome = "resolve" THEN "resolved" ELSE "rejected"
               /\ failed' = IF outcome = "resolve" THEN failed
                            ELSE failed \cup {f.batch[f.pos]}
               /\ UNCHANGED sunk
    /\ UNCHANGED <<buffer, bufferSize, flushTimer, written>>
    /\ UNCHANGED <<maskVars, famVars, logVars, rlVars, fwVars>>

(***************************************************************************)
(* SpecBuf: writes, timer firings, settling wrapped writes and close() in  *)
(* any order; SpecBufLive: the same without close and with wrapped writes  *)
(* that resolve, under a fair timer and fair wrapped writes                *)
(***************************************************************************)
MaxRecords == 4     \* records written to the BufferedWriter

\* new BufferedWriter(target, bufferSize): small enough for threshold flushes
\* and too large for any
BufferSizes == {1, 2, 3, MaxRecords + 1}

InitBuf ==
    /\ MaskIdle
    /\ nodeEnv = "production"
    /\ InitFamily(DefaultConfig)
    /\ InitDispatch({"d1"})
    /\ RateIdle
    /\ FileIdle
    /\ buffer = <<>>
    /\ bufferSize \in BufferSizes
    /\ flushTimer = scheduleFlush
    /\ flushes = <<>>
    /\ bwClose = "no"
    /\ sunk = <<>>
    /\ written = 0
    /\ failed = {}

NextBuf ==
    \/ written < MaxRecords /\ bwClose = "no" /\ BufferedWrite
    \/ TimerFire
    \/ BufferedClose
    \/ \E i \in DOMAIN flushes : TargetSettle(i, "resolve")
    \/ \E i \in DOMAIN flushes : TargetSettle(i, "reject")

SpecBuf == InitBuf /\ [][NextBuf]_vars

TargetResolves == \E i \in DOMAIN flushes : TargetSettle(i, "resolve")

NextBufLive ==
    \/ written < MaxRecords /\ BufferedWrite
    \/ TimerFire
    \/ TargetResolves

SpecBufLive ==
    InitBuf /\ [][NextBufLive]_vars /\ WF_vars(TimerFire) /\ WF_vars(TargetResolves)

(***************************************************************************)
(* Claims about the BufferedWriter                                         *)
(***************************************************************************)
WrittenRecords == 1..written
SunkRecords == {sunk[i] : i \in DOMAIN sunk}
SunkCount(r) == Cardinality({i \in DOMAIN sunk : sunk[i] = r})
InWriteOrder == \A i \in DOMAIN sunk, j \in DOMAIN sunk : i < j => sunk[i] < sunk[j]

\* C14 (as claimed): after writes that stay below the threshold and no
\* failure of the wrapped sink, once close() has resolved every record
\* written has been handed to the wrapped sink exactly once, in the order
\* written, and once close() is called the timer is not armed.
C14_CloseDeliversAll ==
    /\ bwClose # "no" => ~flushTimer
    /\ (bwClose = "resolved" /\ written < bufferSize /\ failed = {}) =>
          sunk = [r \in WrittenRecords |-> r]

\* C16 (as claimed): while no wrapped write fails, the wrapped sink is
\* handed the records in the order they were written, none twice, batches
\* never mixed; and when nothing is queued or being drained, none is missing.
C16_OrderKept ==
    failed = {} =>
       /\ InWriteOrder
       /\ (buffer = <<>> /\ flushes = <<>>) => sunk = [r \in WrittenRecords |-> r]

\* C17 (as claimed): a record whose wrapped write failed was handed over
\* once only, and once its flush has ended every record of its batch has
\* been handed to the wrapped sink.
C17_FailureKeepsBatch ==
    (failed # {} /\ buffer = <<>> /\ flushes = <<>>) =>
        \A r \in WrittenRecords : SunkCount(r) = 1

\* C15: a record written to a BufferedWriter that is never closed is
\* eventually handed to the wrapped sink, whether or not the threshold is
\* reached (fair timer, wrapped writes that resolve): every firing of the
\* timer takes all that is queued into a batch and arms the timer again.
C15_EventuallyFlushed ==
    /\ \A r \in 1..MaxRecords : (written >= r) ~> (r \in SunkRecords)
    /\ [][TimerFire => (buffer' = <<>> /\ flushTimer')]_vars

\* a record below the threshold reached the wrapped sink through the timer
C15_Witness ==
    /\ bufferSize > MaxRecords
    /\ written = 1
    /\ sunk = <<1>>
    /\ flushes = <<>>

(***************************************************************************)
(* FileWriter (src/writers/index.ts) and the directory of its path.        *)
(* files[i] is the file named by getFilePathWithIndex(i): whether it       *)
(* exists, which file it is (ino: a rename keeps it, a new file gets a new *)
(* one) and the records appended to it. A record is [id, size]: the bytes  *)
(* of one logLine. this.fileIndex is never assigned, so the active file is *)
(* always files[0].                                                        *)
(***************************************************************************)
BytesPerMB == 1024 * 1024
MaxIndex == 4       \* files[0..MaxIndex]: the indices a rotation can reach

NoFile == [exists |-> FALSE, ino |-> 0, data |-> <<>>]
Record(id, size) == [id |-> id, size |-> size]

RECURSIVE SumSizes(_)
SumSizes(recs) == IF recs = <<>> THEN 0 ELSE Head(recs).size + SumSizes(Tail(recs))

\* fs.statSync(path).size
StatSize(f) == SumSizes(f.data)

\* fs.renameSync(from, to): the file takes the new name, replacing any file
\* that had it
renameSync(fs, from, to) == [fs EXCEPT ![to] = fs[from], ![from] = NoFile]

\* fs.unlinkSync(path)
unlinkSync(fs, i) == [fs EXCEPT ![i] = NoFile]

RECURSIVE ShiftBackups(_, _, _)
\* the loop of rotateFile from index i down to 1
ShiftBackups(fs, i, maxFiles) ==
    IF i <= 0 THEN fs
    ELSE ShiftBackups(
             IF fs[i].exists
             THEN IF i = maxFiles - 1 THEN unlinkSync(fs, i) ELSE renameSync(fs, i, i + 1)
             ELSE fs,
             i - 1, maxFiles)

\* rotateFile(): the directory afterwards (currentFileSize becomes 0)
rotateFile(fs, maxFiles) ==
    LET shifted == ShiftBackups(fs, maxFiles - 1, maxFiles)
    IN IF shifted[0].exists THEN renameSync(shifted, 0, 1) ELSE shifted

\* a plausible slip: `>=` where the code has `>`
ExceedsMaxFileSizeInclusive(w, logSize) ==
    fw[w].currentFileSize + logSize >= fw[w].maxFileSize * BytesPerMB

\* this.currentFileSize + logSize > this.maxFileSize * 1024 * 1024
ExceedsMaxFileSize(w, logSize) ==
    fw[w].currentFileSize + logSize > fw[w].maxFileSize * BytesPerMB

\* initializeFileSize(): the size of the active file if it exists
initializeFileSize(fs) == IF fs[0].exists THEN StatSize(fs[0]) ELSE 0

\* new FileWriter(filePath, maxFileSize, maxFiles)
FileWriter(fs, maxFileSize, maxFiles) ==
    [currentFileSize |-> initializeFileSize(fs),
     maxFileSize |-> maxFileSize, maxFiles |-> maxFiles]

FileWriters == DOMAIN fw
NextIno == fwLog.inos + 1

\* write(formattedLog, level) up to its first await. Over the limit the file
\* is rotated and the call awaits rotateFile's promise ("rotated");
\* otherwise appendFile is called ("called").
FileWrite(w, size) ==
    /\ w \in FileWriters
    /\ LET id == Len(fwLog.calls) + 1
           rotate == ExceedsMaxFileSize(w, size)
       IN /\ files' = IF rotate THEN rotateFile(files, fw[w].maxFiles) ELSE files
          /\ fw' = IF rotate THEN [fw EXCEPT ![w].currentFileSize = 0] ELSE fw
          /\ fwOps' = fwOps \cup {[w |-> w, rec |-> Record(id, size),
                                   stage |-> IF rotate THEN "rotated" ELSE "called",
                                   ino |-> 0]}
          /\ fwLog' = [fwLog EXCEPT
                          !.rotations = IF rotate THEN @ + 1 ELSE @,
                          !.calls = Append(@, [w |-> w, size |-> size,
                                               sizeBefore |-> fw[w].currentFileSize,
                                               rotated |-> rotate])]
    /\ UNCHANGED <<maskVars, famVars, logVars, rlVars, bwVars>>

\* after `await this.rotateFile()`: appendFile is called
FileWriteResume(op) ==
    /\ op \in fwOps /\ op.stage = "rotated"
    /\ fwOps' = (fwOps \ {op}) \cup {[op EXCEPT !.stage = "called"]}
    /\ UNCHANGED <<files, fw, fwLog>>
    /\ UNCHANGED <<maskVars, famVars, logVars, rlVars, bwVars>>

\* appendFile opens the path of the active file, creating it if it is
\* missing; a failure to open rejects the promise, which write catches
AppendOpen(op, ok) ==
    /\ op \in fwOps /\ op.stage = "called"
    /\ IF ok
       THEN /\ files' = IF files[0].exists THEN files
                        ELSE [files EXCEPT ![0] =
                                 [exists |-> TRUE, ino |-> NextIno, data |-> <<>>]]
            /\ fwLog' = IF files[0].exists THEN fwLog
                        ELSE [fwLog EXCEPT !.inos = NextIno]
            /\ fwOps' = (fwOps \ {op}) \cup
                           {[op EXCEPT !.stage = "opened", !.ino = files'[0].ino]}
       ELSE /\ fwOps' = fwOps \ {op}
            /\ UNCHANGED <<files, fwLog>>
    /\ UNCHANGED fw
    /\ UNCHANGED <<maskVars, famVars, logVars, rlVars, bwVars>>

\* appendFile settles: the bytes go to the file that was opened, whatever
\* its name is by now (nowhere if it was deleted meanwhile), and on success
\* `this.currentFileSize += logSize`; on failure the catch logs and the size
\* is kept
AppendSettle(op, ok) ==
    /\ op \in fwOps /\ op.stage = "opened"
    /\ fwOps' = fwOps \ {op}
    /\ IF ok
       THEN /\ files' = [i \in DOMAIN files |->
                            IF files[i].exists /\ files[i].ino = op.ino
                            THEN [files[i] EXCEPT !.data = Append(@, op.rec)]
                            ELSE files[i]]
            /\ fw' = [fw EXCEPT ![op.w].currentFileSize = @ + op.rec.size]
            /\ fwLog' = [fwLog EXCEPT !.ok = @ \cup {op.rec.id}]
       ELSE UNCHANGED <<files, fw, fwLog>>
    /\ UNCHANGED <<maskVars, famVars, logVars, rlVars, bwVars>>

\* child() of a logger with enableFile: new Logger(this.config) runs
\* setupWriters, which makes a new FileWriter over the same path
NewFileWriter ==
    /\ LET w == Cardinality(FileWriters) + 1
       IN fw' = fw @@ (w :> FileWriter(files, fw[1].maxFileSize, fw[1].maxFiles))
    /\ UNCHANGED <<files, fwOps, fwLog>>
    /\ UNCHANGED <<maskVars, famVars, logVars, rlVars, bwVars>>

(***************************************************************************)
(* SpecRotate: one FileWriter, each write awaited before the next.         *)
(* SpecFile: the FileWriters of a logger family over one path, writes      *)
(* issued without waiting for one another.                                 *)
(***************************************************************************)
MaxWrites == 4      \* write() calls on the path
MaxInFlight == 2    \* write() calls in flight at one time in SpecFile

\* the sizes of a logLine: one byte, and what fills a file of 1 MB
LineSizes == {1, BytesPerMB - 1, BytesPerMB}
RetentionCounts == 0..3

\* what the path holds at construction: nothing, or a file of one byte
StartFiles ==
    {[i \in 0..MaxIndex |-> NoFile],
     [i \in 0..MaxIndex |->
         IF i = 0 THEN [exists |-> TRUE, ino |-> 1, data |-> <<Record(0, 1)>>]
         ELSE NoFile]}

InitFiles(retention) ==
    /\ MaskIdle
    /\ nodeEnv = "production"
    /\ InitFamily(DefaultConfig)
    /\ InitDispatch({"d1"})
    /\ RateIdle
    /\ BufIdle
    /\ files \in StartFiles
    /\ \E maxFiles \in retention : fw = <<FileWriter(files, 1, maxFiles)>>
    /\ fwOps = {}
    /\ fwLog = [start |-> StatSize(files[0]), rotations |-> 0, calls |-> <<>>,
                ok |-> {}, inos |-> 1]

InitRotate == InitFiles(RetentionCounts)

Settles ==
    \/ \E op \in fwOps : FileWriteResume(op)
    \/ \E op \in fwOps, ok \in BOOLEAN : AppendOpen(op, ok)
    \/ \E op \in fwOps, ok \in BOOLEAN : AppendSettle(op, ok)

NextRotate ==
    \/ \E size \in LineSizes :
          fwOps = {} /\ Len(fwLog.calls) < MaxWrites /\ FileWrite(1, size)
    \/ Settles

SpecRotate == InitRotate /\ [][NextRotate]_vars

InitFile == InitFiles({2})

NextFile ==
    \/ \E w \in FileWriters, size \in LineSizes :
          /\ Cardinality(fwOps) < MaxInFlight
          /\ Len(fwLog.calls) < MaxWrites - 1
          /\ FileWrite(w, size)
    \/ Settles
    \/ Cardinality(FileWriters) < MaxLoggers /\ NewFileWriter

SpecFile == InitFile /\ [][NextFile]_vars

(***************************************************************************)
(* Claims about the FileWriter                                             *)
(***************************************************************************)
Calls == fwLog.calls
MaxFileBytes(w) == fw[w].maxFileSize * BytesPerMB
Backups(fs) == {i \in 1..MaxIndex : fs[i].exists}

\* how often record id occurs in file f
Occurrences(f, id) == Cardinality({j \in DOMAIN f.data : f.data[j].id = id})

RECURSIVE SumCalls(_)
SumCalls(cs) == IF cs = <<>> THEN 0 ELSE Head(cs).size + SumCalls(Tail(cs))

\* the records of calls from..to, as appended
RecordsOf(from, to) == [j \in 1..(to - from + 1) |-> Record(from + j - 1, Calls[from + j - 1].size)]

\* C18: in a sequence of awaited writes, a write rotates exactly when
\* currentFileSize + its bytes > the maximum, and before its record is
\* appended; no record lies in two files; and when max + 1 bytes have been
\* written to a file that started empty there has been exactly one rotation,
\* the active file holds the records written from the rotating write on and
\* the backup the ones before.
C18_RotatesBeforeOverflow ==
    /\ \A k \in DOMAIN Calls :
          Calls[k].rotated <=> Calls[k].sizeBefore + Calls[k].size > MaxFileBytes(1)
    /\ \A id \in fwLog.ok :
          /\ \A i \in DOMAIN files : Occurrences(files[i], id) <= 1
          /\ Cardinality({i \in DOMAIN files : Occurrences(files[i], id) = 1}) <= 1
    /\ (/\ fwOps = {} /\ fwLog.start = 0
        /\ fwLog.ok = DOMAIN Calls
        /\ SumCalls(Calls) = MaxFileBytes(1) + 1) =>
          /\ fwLog.rotations = 1
          /\ Calls[Len(Calls)].rotated
          /\ files[0].data = RecordsOf(Len(Calls), Len(Calls))
          /\ files[1].data = RecordsOf(1, Len(Calls) - 1)
          /\ fw[1].currentFileSize = Calls[Len(Calls)].size

\* a full file, one byte more: the byte is alone in the active file
C18_Witness ==
    /\ fwOps = {} /\ fwLog.start = 0 /\ fwLog.ok = {1, 2, 3}
    /\ Len(Calls) = 3
    /\ Calls[1].size = BytesPerMB - 1 /\ Calls[2].size = 1 /\ Calls[3].size = 1
    /\ ~Calls[2].rotated /\ Calls[3].rotated
    /\ files[0].data = <<Record(3, 1)>>
    /\ files[1].data = <<Record(1, BytesPerMB - 1), Record(2, 1)>>

\* C19 (as claimed): whenever no write is in flight, every FileWriter's
\* currentFileSize is the number of bytes in the active file.
C19_SizeMatchesFile ==
    fwOps = {} =>
       \A w \in FileWriters :
          fw[w].currentFileSize = IF files[0].exists THEN StatSize(files[0]) ELSE 0

\* C20 (as claimed): a rotation moves every backup i to i + 1 unless that is
\* beyond the retention count, makes the active file backup 1, sets
\* currentFileSize to 0, and leaves no more than maxFiles backups.
C20_RotationShifts ==
    [][fwLog'.rotations # fwLog.rotations =>
          /\ \A i \in 1..(MaxIndex - 1) :
                (files[i].exists /\ i + 1 <= fw[1].maxFiles) => files'[i + 1] = files[i]
          /\ files[0].exists => files'[1] = files[0]
          /\ fw'[1].currentFileSize = 0
          /\ Cardinality(Backups(files')) <= fw[1].maxFiles
      ]_vars

(***************************************************************************)
(* SpecConfig: construction from a partial config. The constructor spreads *)
(* the given config over its defaults and hands config.filePath to the     *)
(* FileWriter it builds; the loggers are then called.                      *)
(***************************************************************************)
\* `new Logger({ level: 999 as LogLevel })`
InvalidLevel == 999

\* '../../../x': the path segments are single tokens
TraversalPath == Str(<<"..", "/", "..", "/", "..", "/", "x">>)

HasTraversal(p) == p.t = "str" /\ \E i \in 1..Len(p.v) : p.v[i] = ".."

\* this.config = { level: INFO, ..., ...config }: the given keys win
LoggerConfig(given) == given @@ DefaultConfig

\* the path setupWriters hands to `new FileWriter(this.config.filePath, ...)`
FileWriterFilePath(l) == config[l].filePath

HasFileWriter(l) == \E i \in 1..Len(writers[l]) : writers[l][i].kind = "buffered"

GivenConfigs ==
    {[level |-> lv] : lv \in {WARN, InvalidLevel}}
    \cup {[enableFile |-> f, filePath |-> p] : f \in BOOLEAN, p \in {LogPath, TraversalPath}}
    \cup {[level |-> InvalidLevel, enableFile |-> TRUE, filePath |-> TraversalPath],
          [enableConsole |-> FALSE]}

InitConfig ==
    /\ MaskIdle
    /\ SinksIdle
    /\ nodeEnv = "production"
    /\ \E given \in GivenConfigs : InitFamily(LoggerConfig(given))
    /\ InitDispatch({"d1"})

NextConfig ==
    \E method \in Methods, message \in Messages, ctx \in CallContexts :
        Log(1, method, message, NoError, ctx, [m \in SyncStages |-> "proceed"], AllOk)

SpecConfig == InitConfig /\ [][NextConfig]_vars

\* C21: a constructed logger filters against one of the defined levels and
\* its file sink, when it has one, writes to a path without traversal
\* segments
C21_SafeDefaults ==
    \A l \in loggers :
        /\ config[l].level \in LogLevel
        /\ HasFileWriter(l) => ~HasTraversal(FileWriterFilePath(l))

(***************************************************************************)
(* SpecErr: the entry points that take an Error, in every mode of          *)
(* NODE_ENV, with API logging on or off                                    *)
(***************************************************************************)
KApiError == <<"A","P","I"," ","E","r","r","o","r",":"," ">>
KCode == <<"c","o","d","e">>
KCause == <<"c","a","u","s","e">>
KGet == <<"G","E","T">>
KUrl == <<"/","x">>

\* `new Error('m')`: code and cause are absent
SampleError ==
    [present |-> TRUE, name |-> Str(<<"E">>), message |-> Str(<<"m">>),
     stack |-> Str(<<"E", ":", "m", "\\n", "a", "t">>)]

\* errorDetails of logApiError: the stack is attached in every mode
errorDetails(err) ==
    Obj((KCode :> Undefined) @@ (KStack :> err.stack) @@ (KCause :> Undefined))

\* one call of logApiError(method, url, error, options): returns at once when
\* API logging is off, else builds the entry and hands it to writeLog, which
\* is not awaited
logApiError(l, err, ctx, oc, wo) ==
    /\ l \in loggers
    /\ HasFreeSlot
    /\ err.present
    /\ UNCHANGED <<maskCallVars, rlVars, bwVars, fwVars, famVars>>
    /\ IF ~config[l].enableApiLogging
       THEN /\ lastCall' = [method |-> "logApiError", logger |-> l, level |-> ERROR,
                            typeof |-> "str", threw |-> "none",
                            created |-> FALSE, slot |-> "none"]
            /\ UNCHANGED <<disp, objectPrototype>>
       ELSE LET entry == [level |-> ERROR,
                          message |-> Str(KApiError \o KGet \o <<" ">> \o KUrl
                                          \o <<" ", "-", " ">> \o String(err.message)),
                          method |-> Str(KGet), url |-> Str(KUrl),
                          context |-> Merge(heap[context[l]], ctx),
                          errorDetails |-> errorDetails(err)]
            IN IF ~shouldLog(l, entry.level)
               THEN /\ lastCall' = [method |-> "logApiError", logger |-> l, level |-> ERROR,
                                    typeof |-> "str", threw |-> "none",
                                    created |-> TRUE, slot |-> "none"]
                    /\ UNCHANGED <<disp, objectPrototype>>
               ELSE /\ lastCall' = [method |-> "logApiError", logger |-> l, level |-> ERROR,
                                    typeof |-> "str", threw |-> "none",
                                    created |-> TRUE, slot |-> FreeSlot]
                    /\ disp' = [disp EXCEPT ![FreeSlot] = next(NewDispatch(l, entry), oc, wo)]
                    /\ objectPrototype' =
                          DispatchPrototype(0, next(NewDispatch(l, entry), oc, wo))

NodeEnvs == {"production", "development", "test"}

InitErr ==
    /\ MaskIdle
    /\ SinksIdle
    /\ nodeEnv \in NodeEnvs
    /\ \E api \in BOOLEAN, lv \in {INFO, FATAL} :
          InitFamily([DefaultConfig EXCEPT !.level = lv, !.enableApiLogging = api,
                                           !.customWriters = <<CustomWriter("w1")>>])
    /\ InitDispatch({"d1"})

NextErr ==
    \/ \E method \in {"error", "fatal"}, err \in {NoError, SampleError},
          ctx \in CallContexts :
          Log(1, method, Str(<<"m">>), err, ctx, [m \in SyncStages |-> "proceed"], AllOk)
    \/ \E ctx \in CallContexts :
          logApiError(1, SampleError, ctx, [m \in SyncStages |-> "proceed"], AllOk)

SpecErr == InitErr /\ [][NextErr]_vars

RECURSIVE Carries(_, _)
\* value is s or holds s at some depth
Carries(value, s) ==
    \/ value = s
    \/ value.t = "obj" /\ \E k \in DOMAIN value.v : Carries(value.v[k], s)
    \/ value.t = "arr" /\ \E i \in 1..Len(value.v) : Carries(value.v[i], s)

\* the entry of a dispatch holds the stack of the error it was called with
CarriesStack(entry) ==
    \/ Carries(entry.context, SampleError.stack)
    \/ "errorDetails" \in DOMAIN entry /\ Carries(entry.errorDetails, SampleError.stack)

\* C22: an event handed to the pipeline carries the error's stack only
\* when NODE_ENV is 'development'
C22_StackOnlyInDevelopment ==
    \A d \in Dispatches :
        (disp[d].st # "idle" /\ CarriesStack(disp[d].entry)) => nodeEnv = "development"

(***************************************************************************)
(* SpecFormat: the final step with the built-in formatters or a formatter  *)
(* that throws, two custom writers of which each returns, rejects or       *)
(* throws, plain and API entries                                           *)
(***************************************************************************)
FormatWriteOutcomes ==
    {wo \in [CustomWriterNames -> WriteOutcomes] : wo["w3"] = "ok"}

InitFormat ==
    /\ MaskIdle
    /\ SinksIdle
    /\ nodeEnv = "production"
    /\ \E f \in {"none", ThrowingFormatter}, api \in BOOLEAN :
          InitFamily([DefaultConfig EXCEPT
                         !.formatter = f, !.enableApiLogging = api,
                         !.enableConsole = FALSE,
                         !.customWriters = <<CustomWriter("w1"), CustomWriter("w2")>>])
    /\ InitDispatch({"d1"})

NextFormat ==
    \/ \E method \in {"info", "error"}, ctx \in CallContexts, wo \in FormatWriteOutcomes :
          Log(1, method, Str(<<"m">>), NoError, ctx, [m \in SyncStages |-> "proceed"], wo)
    \/ \E ctx \in CallContexts, wo \in FormatWriteOutcomes :
          logApiError(1, SampleError, ctx, [m \in SyncStages |-> "proceed"], wo)

SpecFormat == InitFormat /\ [][NextFormat]_vars

\* the dispatch ran processLogEntry
ReachedFinalStep(d) == disp[d].st # "idle" /\ disp[d].formats > 0

\* the promise of the dispatch rejected and nothing handles the rejection
RejectsUnhandled(d) == disp[d].st = "failed" /\ ~disp[d].caught

\* C23: for each event that reaches the final step the formatter is invoked
\* once, on the redacted event, and every registered writer is handed that
\* text with the event's level; if the formatter throws no writer is called
\* and the producer is not interrupted (the call returns and no rejection is
\* left unhandled)
C23_FormatOnceThenFanOut ==
    \A d \in Dispatches :
        ReachedFinalStep(d) =>
            /\ disp[d].formats = 1
            /\ disp[d].formatted = maskSensitiveDataInEntry(disp[d].logger, disp[d].entry)
            /\ IF disp[d].failedAt = "formatter"
               THEN /\ disp[d].calls = <<>>
                    /\ lastCall.threw = "none"
                    /\ ~RejectsUnhandled(d)
               ELSE \A i \in 1..Len(writers[disp[d].logger]) :
                       \E j \in 1..Len(disp[d].calls) :
                           /\ disp[d].calls[j].writer = writers[disp[d].logger][i]
                           /\ disp[d].calls[j].text = disp[d].record
                           /\ disp[d].calls[j].level = disp[d].entry.level

(***************************************************************************)
(* SpecProto: maps as JSON.parse builds them, with own keys '__proto__'    *)
(* and 'constructor', and a map with an inherited enumerable key, handed   *)
(* to maskSensitiveData and to logger.info as the context                  *)
(***************************************************************************)
KPolluted == <<"p","o","l","l","u","t","e","d">>
KPrototype == <<"p","r","o","t","o","t","y","p","e">>
FieldProto == <<"p","r","o","t","o">>

\* JSON.parse('{"__proto__": {"polluted": true}}') (true is kept as 1)
ProtoPayload == Obj(KProto :> Obj(KPolluted :> Num(1)))

ProtoPayloads ==
    { ProtoPayload,
      Obj((KProto :> Obj(KPolluted :> Num(1))) @@ (KId :> Str(Sab))),
      Obj(KConstructor :> Obj(KPrototype :> Obj(KPolluted :> Num(1)))),
      Obj(KId :> ProtoPayload),
      Obj(KId :> Arr(<<ProtoPayload>>)),
      Obj(KProto :> Str(Sab)),
      Obj(KProto :> Null),
      Obj((KProto :> Obj(KPin :> Str(Sabbab))) @@ (KPin :> Str(Sabbab))),
      [t |-> "obj", v |-> (KId :> Str(Sab)), proto |-> Obj(KPin :> Str(Sabbab))] }

ProtoPolicies ==
    {MaskingOptions(f, <<"*">>, TRUE, 1, 1) : f \in {<<>>, <<FieldProto>>}}

InitProto ==
    /\ data \in ProtoPayloads \cup {Arr(<<ProtoPayload>>)}
    /\ options \in ProtoPolicies
    /\ result = Null
    /\ result2 = Null
    /\ mpc = "start"
    /\ objectPrototype = ObjectPrototype
    /\ SinksIdle
    /\ nodeEnv = "production"
    /\ \E sf \in {<<>>, DefaultSensitiveFields, <<FieldProto>>} :
          InitFamily([DefaultConfig EXCEPT !.sensitiveFields = sf,
                                           !.customWriters = <<CustomWriter("w1")>>])
    /\ InitDispatch({"d1"})

NextProto ==
    \/ Mask
    \/ \E ctx \in ProtoPayloads :
          Log(1, "info", Str(<<"m">>), NoError, ctx, [m \in SyncStages |-> "proceed"], AllOk)

SpecProto == InitProto /\ [][NextProto]_vars

RECURSIVE OwnKeysOnly(_, _, _)
\* out has no key that is not an own key of orig, at any depth the engine
\* traverses
OwnKeysOnly(orig, out, opts) ==
    CASE orig.t = "obj" ->
           /\ out.t = "obj"
           /\ DOMAIN out.v \subseteq DOMAIN orig.v
           /\ \A k \in DOMAIN out.v :
                shouldMaskField(k, opts) \/ OwnKeysOnly(orig.v[k], out.v[k], opts)
      [] orig.t = "arr" ->
           /\ out.t = "arr"
           /\ Len(out.v) = Len(orig.v)
           /\ \A i \in 1..Len(orig.v) : OwnKeysOnly(orig.v[i], out.v[i], opts)
      [] OTHER -> TRUE

HasProtoKey(value) == value.t = "obj" /\ KProto \in DOMAIN value.v

C25_FixedThreeMask ==
    (mpc = "masked" /\ ~options.preserveLength) =>
        \A k \in TopMatched : result.v[k] = Str(repeat(options.maskCharacter, 3))

(***************************************************************************)
(* SpecField: shouldMaskField called again and again with the keys of the  *)
(* objects maskSensitiveData walks, under policies with explicit names and *)
(* custom patterns, which are RegExp objects of the caller                 *)
(***************************************************************************)
Bool(b) == [t |-> "bool", v |-> b]

KZipCode == <<"z","i","p","C","o","d","e">>
FieldKeys == Keys \cup {KZipCode, <<"Z","I","P">>}

FieldPolicies ==
    {[MaskingOptions(f, <<"*">>, TRUE, 0, 0) EXCEPT !.customPatterns = cp] :
        f \in {<<>>, <<FieldZIP>>, <<KId>>},
        cp \in {<<>>,
                <<RegExp(<<"z",".","p">>, FALSE)>>,
                <<RegExp(KZip, TRUE)>>,
                <<RegExp(<<"c","o","d","e">>, TRUE), RegExp(KZip, TRUE)>>}}

InitField ==
    /\ data = Null
    /\ options \in FieldPolicies
    /\ result = Null
    /\ result2 = Null
    /\ mpc = "start"
    /\ objectPrototype = ObjectPrototype
    /\ SinksIdle
    /\ nodeEnv = "production"
    /\ InitFamily(DefaultConfig)
    /\ InitDispatch({"d1"})

\* one call shouldMaskField(fieldName, options): data is the key, result the
\* decision, result2 the decision of the call before
TestField(fieldName) ==
    /\ data' = Str(fieldName)
    /\ result' = Bool(shouldMaskField(fieldName, options))
    /\ result2' = result
    /\ options' = [options EXCEPT !.customPatterns = customPatternsAfter(fieldName, options)]
    /\ mpc' = "tested"
    /\ UNCHANGED <<objectPrototype, famVars, logVars, rlVars, bwVars, fwVars>>

NextField == \E fieldName \in FieldKeys : TestField(fieldName)

SpecField == InitField /\ [][NextField]_vars

\* the decision as claimed: a function of the key name and of the policy's
\* names and patterns alone
ClaimedDecision(fieldName, opts) ==
    \/ \E i \in 1..Len(opts.sensitiveFields) :
          includes(toLowerCase(fieldName), toLowerCase(opts.sensitiveFields[i]))
    \/ \E i \in 1..Len(DEFAULT_SENSITIVE_PATTERNS) :
          RegexTestI(DEFAULT_SENSITIVE_PATTERNS[i], fieldName)
    \/ \E i \in 1..Len(opts.customPatterns) :
          RegexTestI(opts.customPatterns[i].source, fieldName)

\* C26 (as claimed): a key is masked if and only if its lowercased name
\* contains an explicit field name, or it matches a built-in pattern, or it
\* matches a custom pattern, whatever calls were made before.
C26_DecisionByNameAndPolicy ==
    mpc = "tested" => result = Bool(ClaimedDecision(data.v, options))

RECURSIVE Frame(_, _, _)
\* out is orig but for the values under matched keys: same own key sets,
\* same array lengths and order, same scalars, null and undefined kept
Frame(orig, out, opts) ==
    CASE orig.t = "obj" ->
           /\ out.t = "obj"
           /\ DOMAIN out.v = DOMAIN orig.v
           /\ \A k \in DOMAIN orig.v :
                IF shouldMaskField(k, opts)
                THEN orig.v[k].t \in {"null", "undefined"} => out.v[k] = orig.v[k]
                ELSE Frame(orig.v[k], out.v[k], opts)
      [] orig.t = "arr" ->
           /\ out.t = "arr"
           /\ Len(out.v) = Len(orig.v)
           /\ \A i \in 1..Len(orig.v) : Frame(orig.v[i], out.v[i], opts)
      [] OTHER -> out = orig

\* C27 (as claimed): masking changes nothing but the values under matched
\* keys (objects keep exactly their own key set, arrays their length and
\* order, scalars and null/undefined are returned as they are), and the
\* logger's masking step leaves the message as it is.
C27_FramePreserved ==
    /\ mpc = "masked" => Frame(data, result, options)
    /\ \A d \in Dispatches :
          ReachedFinalStep(d) =>
              /\ disp[d].formatted.message = disp[d].entry.message
              /\ Len(config[disp[d].logger].sensitiveFields) > 0 =>
                    Frame(disp[d].entry.context, disp[d].formatted.context,
                          EntryMaskingOptions(disp[d].logger))

(***************************************************************************)
(* Further claims about the rate limiter, under SpecRate                   *)
(***************************************************************************)
\* the windows the limiter was constructed with a cap for
ConfiguredWindows ==
    {w \in {<<SecondMs, rlOptions.maxLogsPerSecond>>,
            <<MinuteMs, rlOptions.maxLogsPerMinute>>,
            <<HourMs, rlOptions.maxLogsPerHour>>} : w[2].t # "undefined"}

LargestConfiguredWindow ==
    IF \E w \in ConfiguredWindows : w[1] = HourMs THEN HourMs
    ELSE IF \E w \in ConfiguredWindows : w[1] = MinuteMs THEN MinuteMs
    ELSE SecondMs

\* C28 (as claimed): after every call of execute with an event of timestamp
\* now, passed, dropped or exempt, no retained timestamp is older than now
\* minus the largest window the limiter has a cap for.
C28_RetainedWithinLargestWindow ==
    rlEvents # <<>> =>
        \A i \in 1..Len(logTimestamps) :
            logTimestamps[i] >= LastNow - LargestConfiguredWindow

\* the step appends an event to the history
RateStep == Len(rlEvents') = Len(rlEvents) + 1

\* C29: an event whose level is in skipLevels goes on to the next stage,
\* leaves the retained timestamps and the dropped count as they are and
\* does not call the drop callback, whatever the windows hold.
C29_ExemptBypasses ==
    [][(RateStep /\ rlEvents'[Len(rlEvents')].level \in rlOptions.skipLevels) =>
          /\ rlEvents'[Len(rlEvents')].outcome = "exempt"
          /\ rlEvents'[Len(rlEvents')].callback = 0
          /\ logTimestamps' = logTimestamps
          /\ droppedLogsCount' = droppedLogsCount]_vars

\* cap 2 per second, all in one millisecond: an exempt event passes when
\* the second window is full, and the next event is dropped as the third
\* of the window, not the fourth
C29_Witness ==
    /\ rlOptions.maxLogsPerSecond = Num(2)
    /\ Len(rlEvents) = 4
    /\ \A k \in 1..4 : rlEvents[k].now = 0
    /\ Passed(1) /\ Passed(2)
    /\ rlEvents[3].level = FATAL /\ rlEvents[3].outcome = "exempt"
    /\ Dropped(4)
    /\ rlEvents[4].callback = 1
    /\ droppedLogsCount = 1
    /\ Len(logTimestamps) = 2

(***************************************************************************)
(* Further claims about BufferedWriter, under SpecBuf                      *)
(***************************************************************************)
\* the step is a call of write
WriteStep == written' = written + 1

\* C30: write appends the record and, when the queue has reached the
\* capacity, starts a flush that takes the whole queue at once; after every
\* call the queue is shorter than the capacity, whether or not earlier
\* flushes are still waiting for the wrapped sink.
C30_QueueBelowCapacity ==
    /\ [](Len(buffer) < bufferSize)
    /\ [][WriteStep =>
            IF Len(buffer) + 1 >= bufferSize
            THEN /\ buffer' = <<>>
                 /\ Len(flushes') = Len(flushes) + 1
                 /\ flushes'[Len(flushes')].batch = Append(buffer, written')
            ELSE /\ buffer' = Append(buffer, written')
                 /\ flushes' = flushes]_vars

\* capacity 2 and a wrapped sink that has not settled one write yet: the
\* fourth write starts a second flush while the first one is at its first
\* record
C30_Witness ==
    /\ bufferSize = 2
    /\ written = 4
    /\ buffer = <<>>
    /\ Len(flushes) = 2
    /\ flushes[1].pos = 1
    /\ flushes[2].batch = <<3, 4>>

(***************************************************************************)
(* Further claims about the FileWriter                                     *)
(***************************************************************************)
\* C31 (as claimed): with one FileWriter and write calls issued without
\* waiting for one another (as the flushes of a BufferedWriter issue them),
\* the active file never holds more than the maximum size and no write's
\* rotation comes between another write's size check and its append: every
\* append that has opened its file still finds it the active file.
C31_WriteIsOneUnit ==
    Cardinality(FileWriters) = 1 =>
        /\ files[0].exists => StatSize(files[0]) <= MaxFileBytes(1)
        /\ \A op \in fwOps :
              op.stage = "opened" => (files[0].exists /\ files[0].ino = op.ino)

(***************************************************************************)
(* Further claims about the logger family, under SpecFamily                *)
(***************************************************************************)
\* the step changes the stage list of some logger that exists already
ListEdit == loggers' = loggers /\ middlewares' # middlewares

\* C32: child() gives the new logger the stages its parent has at that
\* moment, the same instances in the same order, in a list of its own:
\* use, removeMiddleware and clearMiddlewares on one logger change the list
\* of that logger alone.
C32_ChildCopiesStageList ==
    [][/\ ListEdit =>
            \E l \in loggers :
               \A x \in loggers \ {l} : middlewares'[x] = middlewares[x]
       /\ (lastCall'.method = "child" /\ loggers' # loggers) =>
            /\ middlewares'[lastCall'.made] = middlewares[lastCall'.logger]
            /\ \A x \in loggers : middlewares'[x] = middlewares[x]
      ]_vars

\* a child made when its parent ran stage A; afterwards the parent got
\* stage B and the child lost A
C32_Witness ==
    /\ Cardinality(loggers) = 2
    /\ middlewares[1] = <<"A", "B">>
    /\ middlewares[2] = <<>>
    /\ lastCall.method = "child"
    /\ config[1].middlewares = <<"A">>

(***************************************************************************)
(* SpecSanitize: error() and fatal() called with an Error whose name and   *)
(* message hold control characters, and with a per-call context that may   *)
(* itself have the keys errorName and errorMessage                         *)
(***************************************************************************)
DirtyStrings ==
    {Str(<<"E">>), Str(<<"F">>), Str(<<"E", "\\n", "x">>), Str(<<"\\x00", "E", "\\x7F">>)}

DirtyErrors ==
    {[present |-> TRUE, name |-> n, message |-> m, stack |-> Str(<<"a", "t">>)] :
        n \in DirtyStrings, m \in DirtyStrings \ {Str(<<"F">>)}}

SanitizeContexts ==
    {EmptyObj, Obj(KId :> Num(7)),
     Obj(KErrorName :> Str(<<"a", "\\n", "b">>)),
     Obj(KErrorMessage :> Str(<<"\\x1F">>))}

InitSanitize ==
    /\ MaskIdle
    /\ SinksIdle
    /\ nodeEnv \in {"production", "development"}
    /\ \E sf \in {<<>>, DefaultSensitiveFields} :
          InitFamily([DefaultConfig EXCEPT !.sensitiveFields = sf,
                                           !.customWriters = <<CustomWriter("w1")>>])
    /\ InitDispatch({"d1"})

NextSanitize ==
    \E method \in {"error", "fatal"}, err \in DirtyErrors, ctx \in SanitizeContexts :
        Log(1, method, Str(<<"m">>), err, ctx, [m \in SyncStages |-> "proceed"], AllOk)

SpecSanitize == InitSanitize /\ [][NextSanitize]_vars

\* a string without control characters, of at most 1000 characters
IsSanitized(value) ==
    /\ value.t = "str"
    /\ Len(value.v) <= SanitizeLimit
    /\ \A i \in 1..Len(value.v) : value.v[i] \notin ControlChars

\* C33: every event error() or fatal() produces from an Error has an
\* errorName and an errorMessage without control characters and of at most
\* 1000 characters, whatever per-call context comes with the call.
C33_ErrorFieldsSanitized ==
    \A d \in Dispatches :
        disp[d].st # "idle" =>
            /\ IsSanitized(disp[d].entry.context.v[KErrorName])
            /\ IsSanitized(disp[d].entry.context.v[KErrorMessage])

(***************************************************************************)
(* MetricsMiddleware (src/middlewares/metrics-middleware.ts)               *)
(***************************************************************************)
DefaultFrequencyWindowMinutes == 5

\* a Date, as its time value in milliseconds
Date(ms) == [t |-> "date", v |-> ms]

\* this.options.frequencyWindowMinutes ?? 5
windowMinutes == 
    IF metricsMw.options.frequencyWindowMinutes \in {Undefined, Null}
    THEN DefaultFrequencyWindowMinutes
    ELSE metricsMw.options.frequencyWindowMinutes.v

\* a plausible slip: only FATAL counted as an error
CountsAsErrorAbove(level) == level > ERROR

\* entry.level >= LogLevel.ERROR
CountsAsError(level) == level >= ERROR

RECURSIVE FilterAfter(_, _)
\* logHistory.filter(time => time > cutoffTime)
FilterAfter(history, cutoffTime) ==
    IF history = <<>> THEN <<>>
    ELSE IF Head(history).v > cutoffTime.v
         THEN <<Head(history)>> \o FilterAfter(Tail(history), cutoffTime)
         ELSE FilterAfter(Tail(history), cutoffTime)

\* updateLogFrequency(timestamp): the history and the frequency after it
updateLogFrequency(history, timestamp) ==
    LET windowMs == windowMinutes * 60 * 1000
        cutoffTime == Date(timestamp.v - windowMs)
        kept == FilterAfter(Append(history, timestamp), cutoffTime)
    IN [logHistory |-> kept, logFrequency |-> Frac(Len(kept), windowMinutes)]

\* execute(entry, context, next): entry is given as its level, its timestamp
\* and the length of its JSON text; the stage always calls next()
MetricsExecute(entry) ==
    LET m == metricsMw.metrics
        total == m.totalLogs + 1
        size == metricsMw.totalLogSize + entry.size
        tracks == metricsMw.options.trackFrequency = Bool(TRUE)
        freq == updateLogFrequency(metricsMw.logHistory, entry.timestamp)
        after == [totalLogs |-> total,
                  logsByLevel |-> [m.logsByLevel EXCEPT ![entry.level] = @ + 1],
                  errorCount |-> IF CountsAsError(entry.level)
                                 THEN m.errorCount + 1 ELSE m.errorCount,
                  averageLogSize |-> Frac(size, total),
                  lastLogTime |-> entry.timestamp,
                  logFrequency |-> IF tracks THEN freq.logFrequency ELSE m.logFrequency]
    IN /\ metricsMw' = [metricsMw EXCEPT
                           !.metrics = after,
                           !.logHistory = IF tracks THEN freq.logHistory ELSE @,
                           !.totalLogSize = size,
                           !.published = after,
                           !.last = [method |-> "execute", entry |-> entry]]
       /\ UNCHANGED <<rlOptions, logTimestamps, droppedLogsCount, rlEvents,
                      maskVars, famVars, logVars, bwVars, fwVars>>

resetMetrics ==
    /\ metricsMw' = [metricsMw EXCEPT
                        !.metrics = InitialMetrics,
                        !.logHistory = <<>>,
                        !.totalLogSize = 0,
                        !.last = [method |-> "resetMetrics"]]
    /\ UNCHANGED <<rlOptions, logTimestamps, droppedLogsCount, rlEvents,
                   maskVars, famVars, logVars, bwVars, fwVars>>

(***************************************************************************)
(* SpecMetrics: one MetricsMiddleware with or without frequency tracking,  *)
(* executed for events of every level and reset at any moment              *)
(***************************************************************************)
MetricsOptions ==
    {[trackFrequency |-> tf, frequencyWindowMinutes |-> w] :
        tf \in {Undefined, Bool(TRUE)}, w \in {Undefined, Num(1), Num(2)}}

EntryTimes == {0, MinuteMs, 6 * MinuteMs}
EntrySizes == {10}
MetricsEntries ==
    {[level |-> lv, timestamp |-> Date(t), size |-> n] :
        lv \in LogLevel, t \in EntryTimes, n \in EntrySizes}

InitMetrics ==
    /\ MaskIdle
    /\ nodeEnv = "production"
    /\ InitFamily(DefaultConfig)
    /\ InitDispatch({"d1"})
    /\ BufIdle
    /\ FileIdle
    /\ rlOptions = [maxLogsPerSecond |-> Undefined, maxLogsPerMinute |-> Undefined,
                    maxLogsPerHour |-> Undefined, skipLevels |-> {},
                    onRateLimitExceeded |-> FALSE]
    /\ logTimestamps = <<>>
    /\ droppedLogsCount = 0
    /\ rlEvents = <<>>
    /\ \E opts \in MetricsOptions : metricsMw = NewMetricsMiddleware(opts)

NextMetrics ==
    \/ \E entry \in MetricsEntries :
          metricsMw.metrics.totalLogs < MaxEvents /\ MetricsExecute(entry)
    \/ resetMetrics

SpecMetrics == InitMetrics /\ [][NextMetrics]_vars

RECURSIVE SumOver(_, _)
SumOver(f, S) ==
    IF S = {} THEN 0
    ELSE LET x == CHOOSE y \in S : TRUE IN f[x] + SumOver(f, S \ {x})

\* C34: the total is the sum of the five per-level counts, the error count
\* is the count of ERROR plus the count of FATAL, the last-seen time is the
\* timestamp of the event executed last, with frequency tracking on the
\* history holds only timestamps newer than that timestamp minus the window
\* and the frequency is the length of the history over the window in
\* minutes, and right after resetMetrics everything has its initial value.
C34_MetricsConsistent ==
    LET m == metricsMw.metrics IN
    /\ m.totalLogs = SumOver(m.logsByLevel, LogLevel)
    /\ m.errorCount = m.logsByLevel[ERROR] + m.logsByLevel[FATAL]
    /\ metricsMw.last.method = "execute" =>
          /\ m.lastLogTime = metricsMw.last.entry.timestamp
          /\ metricsMw.options.trackFrequency = Bool(TRUE) =>
                /\ \A i \in 1..Len(metricsMw.logHistory) :
                      metricsMw.logHistory[i].v > m.lastLogTime.v - windowMinutes * MinuteMs
                /\ m.logFrequency.num * windowMinutes
                      = Len(metricsMw.logHistory) * m.logFrequency.den
    /\ metricsMw.last.method = "resetMetrics" =>
          /\ m = InitialMetrics
          /\ metricsMw.logHistory = <<>>
          /\ metricsMw.totalLogSize = 0

\* three events counted, two of them errors, and the one-minute window holds
\* only the last
C34_Witness ==
    /\ metricsMw.options = [trackFrequency |-> Bool(TRUE), frequencyWindowMinutes |-> Num(1)]
    /\ metricsMw.metrics.totalLogs = 3
    /\ metricsMw.metrics.errorCount = 2
    /\ metricsMw.metrics.logsByLevel[FATAL] = 1
    /\ metricsMw.logHistory = <<Date(6 * MinuteMs)>>
    /\ metricsMw.metrics.logFrequency = Frac(1, 1)
    /\ metricsMw.metrics.lastLogTime = Date(6 * MinuteMs)

(***************************************************************************)
(* logApiRequest and logApiResponse (src/core/logger.ts)                   *)
(***************************************************************************)
\* the part the API entry points share: return at once when API logging is
\* off, else hand the entry to writeLog, which is not awaited
logApi(l, name, entry, oc, wo) ==
    /\ l \in loggers
    /\ HasFreeSlot
    /\ UNCHANGED <<maskCallVars, rlVars, bwVars, fwVars, famVars>>
    /\ IF ~config[l].enableApiLogging
       THEN /\ lastCall' = [method |-> name, logger |-> l, level |-> entry.level,
                            typeof |-> "str", threw |-> "none",
                            created |-> FALSE, slot |-> "none"]
            /\ UNCHANGED <<disp, objectPrototype>>
       ELSE IF ~shouldLog(l, entry.level)
            THEN /\ lastCall' = [method |-> name, logger |-> l, level |-> entry.level,
                                 typeof |-> "str", threw |-> "none",
                                 created |-> TRUE, slot |-> "none"]
                 /\ UNCHANGED <<disp, objectPrototype>>
            ELSE /\ lastCall' = [method |-> name, logger |-> l, level |-> entry.level,
                                 typeof |-> "str", threw |-> "none",
                                 created |-> TRUE, slot |-> FreeSlot]
                 /\ disp' = [disp EXCEPT ![FreeSlot] = next(NewDispatch(l, entry), oc, wo)]
                 /\ objectPrototype' =
                       DispatchPrototype(0, next(NewDispatch(l, entry), oc, wo))

KApiRequest == <<"A","P","I"," ","R","e","q","u","e","s","t",":"," ">>
KApiResponse == <<"A","P","I"," ","R","e","s","p","o","n","s","e",":"," ">>

\* logApiRequest(method, url, options)
logApiRequest(l, opts, oc, wo) ==
    logApi(l, "logApiRequest",
           [level |-> INFO,
            message |-> Str(KApiRequest \o KGet \o <<" ">> \o KUrl),
            method |-> Str(KGet), url |-> Str(KUrl),
            context |-> Merge(heap[context[l]], opts.context),
            requestHeaders |-> opts.requestHeaders,
            requestBody |-> opts.requestBody],
           oc, wo)

BadStatus == 400

\* logApiResponse(method, url, statusCode, responseTime, options); the
\* status and the time are left out of the message text
logApiResponse(l, statusCode, opts, oc, wo) ==
    logApi(l, "logApiResponse",
           [level |-> IF statusCode >= BadStatus THEN ERROR ELSE INFO,
            message |-> Str(KApiResponse \o KGet \o <<" ">> \o KUrl),
            method |-> Str(KGet), url |-> Str(KUrl),
            statusCode |-> Num(statusCode),
            context |-> Merge(heap[context[l]], opts.context),
            responseHeaders |-> opts.responseHeaders,
            responseBody |-> opts.responseBody],
           oc, wo)

(***************************************************************************)
(* SpecApi: API requests and responses logged with headers and bodies that *)
(* may hold a password, under the default configuration                    *)
(***************************************************************************)
Secret == Str(Sabbab)
ApiPayloads == {Undefined, Obj(KId :> Num(7)), Obj(FieldPassword :> Secret)}
ApiOptions ==
    {[context |-> c, requestHeaders |-> h, requestBody |-> b,
      responseHeaders |-> h, responseBody |-> b] :
        c \in {EmptyObj, Obj(FieldPassword :> Secret)}, h \in ApiPayloads, b \in ApiPayloads}
StatusCodes == {200, 400}

InitApi ==
    /\ MaskIdle
    /\ SinksIdle
    /\ nodeEnv = "production"
    /\ \E api \in BOOLEAN, lv \in {INFO, ERROR} :
          InitFamily([DefaultConfig EXCEPT !.level = lv, !.enableApiLogging = api,
                                           !.customWriters = <<CustomWriter("w1")>>])
    /\ InitDispatch({"d1"})

NextApi ==
    \/ \E opts \in ApiOptions :
          logApiRequest(1, opts, [m \in SyncStages |-> "proceed"], AllOk)
    \/ \E code \in StatusCodes, opts \in ApiOptions :
          logApiResponse(1, code, opts, [m \in SyncStages |-> "proceed"], AllOk)

SpecApi == InitApi /\ [][NextApi]_vars

ZeroCaps ==
    {c \in {rlOptions.maxLogsPerSecond, rlOptions.maxLogsPerMinute,
            rlOptions.maxLogsPerHour} : c = Num(0)}

\* C36: "dropped when the window's count is at or above its cap" holds for
\* a cap of 0 too: with a window capped at 0 no non-exempt event passes.
C36_ZeroCapPassesNothing ==
    ZeroCaps # {} => \A k \in EventIds : Counted(k) => ~Passed(k)

(***************************************************************************)
(* Edits of the stage list during a dispatch, under SpecChain              *)
(***************************************************************************)
\* C37: a dispatch runs the stages that were registered when it began,
\* each once and in order, and then the final step once, whatever use,
\* removeMiddleware and clearMiddlewares do while it is suspended in a stage.
C37_DispatchKeepsItsStages ==
    \A d \in Dispatches :
        disp[d].st # "idle" =>
            LET dr == disp[d]
                n == Len(dr.ran)
            IN /\ n <= Len(dr.snap)
               /\ dr.ran = SubSeq(dr.snap, 1, n)
               /\ dr.record # NoRecord => (n = Len(dr.snap) /\ dr.formats = 1)

(***************************************************************************)
(* What a log call has done when it returns, under SpecSink (no stage      *)
(* suspends: the logger has no stages)                                     *)
(***************************************************************************)
\* C38: when no stage of the logger suspends before it calls proceed, a log
\* call that passes the level filter has called write of every writer of the
\* logger, in list order and with its record, by the time it returns.
C38_HandedOverBeforeReturn ==
    (lastCall.method \in Methods /\ lastCall.slot \in Dispatches) =>
        LET dr == disp[lastCall.slot]
            ws == writers[dr.logger]
        IN (/\ \A i \in 1..Len(dr.snap) : StageKind(dr.snap[i]) = "sync"
            /\ dr.procs = Len(dr.ran)) =>
              /\ dr.st # "suspended"
              /\ Len(dr.calls) = Len(ws)
              /\ \A i \in 1..Len(ws) :
                    dr.calls[i].writer = ws[i] /\ dr.calls[i].text = dr.record

(***************************************************************************)
(* SpecOversize: one FileWriter, awaited writes of one byte or of more     *)
(* than the maximum file size, over a directory that may hold a backup     *)
(* from an earlier run                                                     *)
(***************************************************************************)
OversizeLineSizes == {1, BytesPerMB + 1}

\* nothing, a file of one byte, or a backup without an active file
OversizeStartFiles ==
    StartFiles \cup
    {[i \in 0..MaxIndex |->
         IF i = 1 THEN [exists |-> TRUE, ino |-> 1, data |-> <<Record(0, 1)>>]
         ELSE NoFile]}

InitOversize ==
    /\ MaskIdle
    /\ nodeEnv = "production"
    /\ InitFamily(DefaultConfig)
    /\ InitDispatch({"d1"})
    /\ RateIdle
    /\ BufIdle
    /\ files \in OversizeStartFiles
    /\ \E maxFiles \in {1, 2} : fw = <<FileWriter(files, 1, maxFiles)>>
    /\ fwOps = {}
    /\ fwLog = [start |-> initializeFileSize(files), rotations |-> 0, calls |-> <<>>,
                ok |-> {}, inos |-> 1]

NextOversize ==
    \/ \E size \in OversizeLineSizes :
          fwOps = {} /\ Len(fwLog.calls) < MaxWrites - 1 /\ FileWrite(1, size)
    \/ Settles

SpecOversize == InitOversize /\ [][NextOversize]_vars

\* the active file is missing or has no bytes
ActiveFileEmpty == ~files[0].exists \/ StatSize(files[0]) = 0

=============================================================================
